---- MODULE Spec2Model ----
(***************************************************************************)
(* Model of the filesystem state engine of virtual-file-forge-explorer     *)
(* (src/src/utils/fileSystemUtils.ts).                                      *)
(*                                                                         *)
(* A snapshot (FileSystem) is a record.  Strings that the code takes apart *)
(* (paths, names, command words, file content) are sequences of one-       *)
(* character strings, so that splitting on "/" and slicing content are     *)
(* computed as the code computes them.  Node ids (uuidv4 in the code) are  *)
(* integers: a new id is the least one the snapshot does not use.          *)
(* Timestamps (Date) are not modelled.                                     *)
(*                                                                         *)
(* A caller holds a snapshot fs, makes one call of the library on it, and  *)
(* goes on with what the call returned (or with fs when the call threw).   *)
(* The library is pure, so what a call does to a snapshot is stated by     *)
(* applying its operator to fs.  Snapshots are kept up to a renaming of    *)
(* node ids (Canonical): the code only ever compares ids for equality.     *)
(***************************************************************************)
EXTENDS Integers, Sequences, FiniteSets, TLC

\* ------------------------------------------------------------------ bounds
\* Number of nodes besides the root that a snapshot holds at most.
MaxIds == 3
\* initializeFileSystem(blockSize, totalBlocks): the parameters of the model.
BlockSize == 2
TotalBlocks == 4

\* ------------------------------------------------------------- basic values
\* The null of parentId / fileId / nextBlock / "not found".
Null == -1
\* rootId = uuidv4() in initializeFileSystem.
RootId == 0
\* adminId = uuidv4() in initializeFileSystem.
AdminId == "admin"

\* Characters that encode to more than one byte in UTF-8 (TextEncoder) while
\* being one UTF-16 code unit (String.substring).
WideChars == {"U00E9"}

\* Words of the command language, as character sequences.
W_ls == <<"l", "s">>
W_cd == <<"c", "d">>
W_mkdir == <<"m", "k", "d", "i", "r">>
W_touch == <<"t", "o", "u", "c", "h">>
W_cat == <<"c", "a", "t">>
W_pwd == <<"p", "w", "d">>
W_rm == <<"r", "m">>
W_r == <<"-", "r">>
W_rf == <<"-", "r", "f">>
W_dotdot == <<".", ".">>
W_slash == <<"/">>

\* Names and paths the callers pass in.
N_a == <<"a">>
N_b == <<"b">>
N_c == <<"c">>
N_ab == <<"a", "/", "b">>
Names == {N_a, N_b}
Paths == {N_a, N_b, N_ab, W_slash}
\* The file content passed to createFile: 4 bytes (touch passes the empty one).
Contents == {<<"x", "y", "z", "w">>}
\* The names and contents of the files of a flat disk: 1 byte and 3 bytes.
DiskNames == {N_a, N_b, N_c}
DiskContents == {<<"x">>, <<"x", "y", "z">>}

VARIABLES
    fs       \* the snapshot the caller holds (FileSystem)

vars == <<fs>>

\* ------------------------------------------------------------ initialization
FreeBlock(index) ==
    [id |-> index, fileId |-> Null, nextBlock |-> Null, content |-> <<>>]

initializeFileSystem(blockSize, totalBlocks) ==
    [ nodes |-> (RootId :> [ id |-> RootId,
                             name |-> W_slash,
                             isDirectory |-> TRUE,
                             parentId |-> Null,
                             owner |-> AdminId,
                             permissions |-> (AdminId :> [read |-> TRUE, write |-> TRUE, execute |-> TRUE]),
                             children |-> <<>>,
                             content |-> <<>>,
                             blocks |-> <<>>,
                             startBlock |-> Null,
                             size |-> 0 ]),
      users |-> (AdminId :> [id |-> AdminId, username |-> "admin", isAdmin |-> TRUE]),
      currentUser |-> AdminId,
      currentDirectory |-> RootId,
      blocks |-> [index \in 0..(totalBlocks - 1) |-> FreeBlock(index)],
      blockSize |-> blockSize,
      totalBlocks |-> totalBlocks,
      allocationStrategy |-> "contiguous" ]

\* --------------------------------------------------------------- outcomes
\* A call of the library either returns a snapshot or throws Error(message).
Return(newFs) == [ok |-> TRUE, fs |-> newFs, err |-> [text |-> "", name |-> <<>>]]
Throw(text, name) == [ok |-> FALSE, fs |-> Null, err |-> [text |-> text, name |-> name]]

\* ---------------------------------------------------------------- helpers
IsNode(f, id) == id \in DOMAIN f.nodes

\* Object.values(fs.nodes).find(node => node.parentId === null)
FindRoot(f) ==
    IF \E id \in DOMAIN f.nodes : f.nodes[id].parentId = Null
    THEN CHOOSE id \in DOMAIN f.nodes :
            /\ f.nodes[id].parentId = Null
            /\ \A other \in DOMAIN f.nodes : f.nodes[other].parentId = Null => id <= other
    ELSE Null

\* children.find(childId => fs.nodes[childId] && fs.nodes[childId].name === name)
FindChild(f, children, name) ==
    LET hits == {i \in 1..Len(children) :
                    IsNode(f, children[i]) /\ f.nodes[children[i]].name = name}
    IN IF hits = {} THEN Null
       ELSE children[CHOOSE i \in hits : \A j \in hits : i <= j]

\* Mutant of NameExists: only the first child is compared.
NameExistsFirstOnly(f, children, name) ==
    /\ children # <<>>
    /\ IsNode(f, children[1])
    /\ f.nodes[children[1]].name = name

\* children.some(childId => fs.nodes[childId] && fs.nodes[childId].name === name)
NameExists(f, children, name) == FindChild(f, children, name) # Null

\* Mutant of Without: the filter keeps every element.
WithoutNothing(seq, id) == seq

\* array.filter(id => id !== nodeId)
RECURSIVE Without(_, _)
Without(seq, id) ==
    IF seq = <<>> THEN <<>>
    ELSE IF Head(seq) = id THEN Without(Tail(seq), id)
    ELSE <<Head(seq)>> \o Without(Tail(seq), id)

\* path.split('/').filter(Boolean)
RECURSIVE SplitFrom(_, _, _)
SplitFrom(path, i, cur) ==
    IF i > Len(path) THEN (IF cur = <<>> THEN <<>> ELSE <<cur>>)
    ELSE IF path[i] = "/"
         THEN (IF cur = <<>> THEN SplitFrom(path, i + 1, <<>>)
               ELSE <<cur>> \o SplitFrom(path, i + 1, <<>>))
         ELSE SplitFrom(path, i + 1, Append(cur, path[i]))

SplitPath(path) == SplitFrom(path, 1, <<>>)

\* The walk of getNodeByPath over the path's parts, from node `cur`.
RECURSIVE Walk(_, _, _)
Walk(f, cur, parts) ==
    IF parts = <<>> THEN cur
    ELSE IF ~f.nodes[cur].isDirectory THEN Null
    ELSE LET childId == FindChild(f, f.nodes[cur].children, Head(parts))
         IN IF childId = Null THEN Null ELSE Walk(f, childId, Tail(parts))

getNodeByPath(f, path) ==
    IF path = W_slash THEN FindRoot(f)
    ELSE IF FindRoot(f) = Null THEN Null
    ELSE Walk(f, FindRoot(f), SplitPath(path))

\* Mutant of hasPermission: a grant on the parent directory also counts.
hasPermissionInherits(f, nodeId, permissionType) ==
    IF ~IsNode(f, nodeId) \/ f.currentUser \notin DOMAIN f.users THEN FALSE
    ELSE IF f.users[f.currentUser].isAdmin THEN TRUE
    ELSE LET uid == f.users[f.currentUser].id
             Granted(id) == /\ IsNode(f, id)
                            /\ uid \in DOMAIN f.nodes[id].permissions
                            /\ f.nodes[id].permissions[uid][permissionType]
         IN Granted(nodeId) \/ Granted(f.nodes[nodeId].parentId)

hasPermission(f, nodeId, permissionType) ==
    IF ~IsNode(f, nodeId) \/ f.currentUser \notin DOMAIN f.users THEN FALSE
    ELSE IF f.users[f.currentUser].isAdmin THEN TRUE
    ELSE LET perms == f.nodes[nodeId].permissions
             uid == f.users[f.currentUser].id
         IN uid \in DOMAIN perms /\ perms[uid][permissionType]

\* uuidv4(): an id no node of the snapshot has and nothing in it refers to.
uuidv4(f) ==
    CHOOSE id \in 1..(Cardinality(DOMAIN f.nodes) + 2) :
        /\ id \notin DOMAIN f.nodes \cup {f.currentDirectory}
        /\ \A other \in 1..(id - 1) : other \in DOMAIN f.nodes \cup {f.currentDirectory}

\* ------------------------------------------------------------- createDirectory
DirectoryRecord(newDirId, name, parentId, owner) ==
    [ id |-> newDirId,
      name |-> name,
      isDirectory |-> TRUE,
      parentId |-> parentId,
      owner |-> owner,
      permissions |-> (owner :> [read |-> TRUE, write |-> TRUE, execute |-> TRUE]),
      children |-> <<>>,
      content |-> <<>>,
      blocks |-> <<>>,
      startBlock |-> Null,
      size |-> 0 ]

\* The nodes map of the returned snapshot: {...fs.nodes, [newId]: newNode,
\* [parentId]: updatedParentDir}.
AddChild(f, parentId, newNode) ==
    LET updatedParentDir ==
            [f.nodes[parentId] EXCEPT !.children = Append(@, newNode.id)]
    IN [id \in DOMAIN f.nodes \cup {newNode.id} |->
            IF id = parentId THEN updatedParentDir
            ELSE IF id = newNode.id THEN newNode
            ELSE f.nodes[id]]

\* Mutant of createDirectory: read permission is asked on the parent.
createDirectoryChecksRead(f, parentId, name) ==
    IF ~hasPermission(f, parentId, "read") THEN Throw("Permission denied", <<>>)
    ELSE IF ~IsNode(f, parentId) \/ ~f.nodes[parentId].isDirectory
         THEN Throw("Parent is not a directory", <<>>)
    ELSE IF NameExists(f, f.nodes[parentId].children, name)
         THEN Throw("already exists", name)
    ELSE Return([f EXCEPT !.nodes =
                    AddChild(f, parentId,
                             DirectoryRecord(uuidv4(f), name, parentId, f.currentUser))])

createDirectory(f, parentId, name) ==
    IF ~hasPermission(f, parentId, "write") THEN Throw("Permission denied", <<>>)
    ELSE IF ~IsNode(f, parentId) \/ ~f.nodes[parentId].isDirectory
         THEN Throw("Parent is not a directory", <<>>)
    ELSE IF NameExists(f, f.nodes[parentId].children, name)
         THEN Throw("already exists", name)
    ELSE Return([f EXCEPT !.nodes =
                    AddChild(f, parentId,
                             DirectoryRecord(uuidv4(f), name, parentId, f.currentUser))])

\* ------------------------------------------------------------ block allocator
\* new TextEncoder().encode(content).length
RECURSIVE ByteLength(_)
ByteLength(content) ==
    IF content = <<>> THEN 0
    ELSE (IF Head(content) \in WideChars THEN 2 ELSE 1) + ByteLength(Tail(content))

\* Mutant of Ceil: the quotient is rounded down.
CeilFloor(a, b) == a \div b

\* Math.ceil(a / b) for a >= 0, b > 0
Ceil(a, b) == (a + b - 1) \div b

\* number[] | null: the allocator returns a list of block indices, or null.
Blocks(list) == [isNull |-> FALSE, list |-> list]

\* Mutant of NoBlocks: an empty list (truthy in the code) in place of null.
NoBlocksEmptyList == [isNull |-> FALSE, list |-> <<>>]

NoBlocks == [isNull |-> TRUE, list |-> <<>>]

\* Mutant of ContiguousFree: only the first block of the run is looked at.
ContiguousFreeFirstOnly(f, start, needed) ==
    needed = 0 \/ f.blocks[start].fileId = Null

\* The inner loop: blocks start .. start+needed-1 all have fileId === null.
ContiguousFree(f, start, needed) ==
    \A i \in 0..(needed - 1) : f.blocks[start + i].fileId = Null

\* Mutant of ScanFrom: a run starts at a free block, even a run of no blocks.
RECURSIVE ScanFromFreeBlock(_, _, _)
ScanFromFreeBlock(f, start, needed) ==
    IF start > f.totalBlocks - needed THEN NoBlocks
    ELSE IF /\ start < f.totalBlocks
            /\ f.blocks[start].fileId = Null
            /\ ContiguousFree(f, start, needed)
         THEN Blocks([i \in 1..needed |-> start + i - 1])
         ELSE ScanFromFreeBlock(f, start + 1, needed)

\* The outer loop, from candidate `start` upwards.
RECURSIVE ScanFrom(_, _, _)
ScanFrom(f, start, needed) ==
    IF start > f.totalBlocks - needed THEN NoBlocks
    ELSE IF ContiguousFree(f, start, needed)
         THEN Blocks([i \in 1..needed |-> start + i - 1])
         ELSE ScanFrom(f, start + 1, needed)

allocateBlocksContiguous(f, contentSize) ==
    ScanFrom(f, 0, Ceil(contentSize, f.blockSize))

\* ------------------------------------------------------------------ createFile
\* content.substring(from, to): UTF-16 code units from..to-1
Substring(content, from, to) ==
    SubSeq(content, from + 1, IF to < Len(content) THEN to ELSE Len(content))

\* Mutant of FileRecord: the owner is granted execute, as for a directory.
FileRecordExecutable(newFileId, name, parentId, owner, content, contentSize, strategy, allocatedBlocks) ==
    [ id |-> newFileId,
      name |-> name,
      isDirectory |-> FALSE,
      parentId |-> parentId,
      owner |-> owner,
      permissions |-> (owner :> [read |-> TRUE, write |-> TRUE, execute |-> TRUE]),
      children |-> <<>>,
      content |-> content,
      blocks |-> allocatedBlocks,
      startBlock |-> IF allocatedBlocks = <<>> THEN Null ELSE allocatedBlocks[1],
      size |-> contentSize ]

FileRecord(newFileId, name, parentId, owner, content, contentSize, strategy, allocatedBlocks) ==
    [ id |-> newFileId,
      name |-> name,
      isDirectory |-> FALSE,
      parentId |-> parentId,
      owner |-> owner,
      permissions |-> (owner :> [read |-> TRUE, write |-> TRUE, execute |-> FALSE]),
      children |-> <<>>,
      content |-> content,
      blocks |-> allocatedBlocks,
      startBlock |-> IF allocatedBlocks = <<>> THEN Null ELSE allocatedBlocks[1],
      size |-> contentSize ]

\* updatedBlocks after allocatedBlocks.forEach((blockId, index) => ...)
WriteBlocks(f, allocatedBlocks, newFileId, content) ==
    [b \in DOMAIN f.blocks |->
        IF \E index \in 1..Len(allocatedBlocks) : allocatedBlocks[index] = b
        THEN LET index == CHOOSE index \in 1..Len(allocatedBlocks) : allocatedBlocks[index] = b
             IN [f.blocks[b] EXCEPT
                    !.fileId = newFileId,
                    !.content = Substring(content, (index - 1) * f.blockSize, index * f.blockSize)]
        ELSE f.blocks[b]]

\* Mutant of createFile: every strategy allocates as the contiguous one does.
createFileAnyStrategy(f, parentId, name, content) ==
    IF ~hasPermission(f, parentId, "write") THEN Throw("Permission denied", <<>>)
    ELSE IF ~IsNode(f, parentId) \/ ~f.nodes[parentId].isDirectory
         THEN Throw("Parent is not a directory", <<>>)
    ELSE IF NameExists(f, f.nodes[parentId].children, name)
         THEN Throw("already exists", name)
    ELSE LET newFileId == uuidv4(f)
             contentSize == ByteLength(content)
             allocatedBlocks == allocateBlocksContiguous(f, contentSize)
         IN IF allocatedBlocks.isNull THEN Throw("Not enough disk space", <<>>)
            ELSE Return([f EXCEPT
                    !.nodes = AddChild(f, parentId,
                                  FileRecord(newFileId, name, parentId, f.currentUser, content,
                                             contentSize, f.allocationStrategy, allocatedBlocks.list)),
                    !.blocks = WriteBlocks(f, allocatedBlocks.list, newFileId, content)])

createFile(f, parentId, name, content) ==
    IF ~hasPermission(f, parentId, "write") THEN Throw("Permission denied", <<>>)
    ELSE IF ~IsNode(f, parentId) \/ ~f.nodes[parentId].isDirectory
         THEN Throw("Parent is not a directory", <<>>)
    ELSE IF NameExists(f, f.nodes[parentId].children, name)
         THEN Throw("already exists", name)
    ELSE LET newFileId == uuidv4(f)
             contentSize == ByteLength(content)
             allocatedBlocks == IF f.allocationStrategy = "contiguous"
                                THEN allocateBlocksContiguous(f, contentSize)
                                ELSE NoBlocks
         IN IF allocatedBlocks.isNull THEN Throw("Not enough disk space", <<>>)
            ELSE Return([f EXCEPT
                    !.nodes = AddChild(f, parentId,
                                  FileRecord(newFileId, name, parentId, f.currentUser, content,
                                             contentSize, f.allocationStrategy, allocatedBlocks.list)),
                    !.blocks = WriteBlocks(f, allocatedBlocks.list, newFileId, content)])

\* -------------------------------------------------------------------- moveNode
\* The while loop of the cycle check: "hit" when the moved node is met on the
\* way from `cur` up to (not including) the root, "clear" when the root is
\* reached, "broken" when a parentId names no node (a TypeError in the code).
\* Mutant of ClimbFrom: only the destination itself is compared with the node.
ClimbFromOneStep(f, cur, nodeId) ==
    IF f.nodes[cur].parentId = Null THEN "clear"
    ELSE IF cur = nodeId THEN "hit"
    ELSE "clear"

\* Mutant of ClimbFrom: the walk starts at the destination's parent, so the
\* destination itself is never compared with the node.
RECURSIVE ClimbAbove(_, _, _)
ClimbAbove(f, cur, nodeId) ==
    IF f.nodes[cur].parentId = Null THEN "clear"
    ELSE IF cur = nodeId THEN "hit"
    ELSE IF ~IsNode(f, f.nodes[cur].parentId) THEN "broken"
    ELSE ClimbAbove(f, f.nodes[cur].parentId, nodeId)

ClimbFromAboveOnly(f, cur, nodeId) ==
    IF f.nodes[cur].parentId = Null THEN "clear"
    ELSE IF ~IsNode(f, f.nodes[cur].parentId) THEN "broken"
    ELSE ClimbAbove(f, f.nodes[cur].parentId, nodeId)

RECURSIVE ClimbFrom(_, _, _)
ClimbFrom(f, cur, nodeId) ==
    IF f.nodes[cur].parentId = Null THEN "clear"
    ELSE IF cur = nodeId THEN "hit"
    ELSE IF ~IsNode(f, f.nodes[cur].parentId) THEN "broken"
    ELSE ClimbFrom(f, f.nodes[cur].parentId, nodeId)

\* Mutant of moveNode: write permission is asked on the node, not on its parent.
moveNodeChecksNode(f, nodeId, newParentId) ==
    IF ~IsNode(f, nodeId) THEN Throw("Source node not found", <<>>)
    ELSE IF ~IsNode(f, newParentId) \/ ~f.nodes[newParentId].isDirectory
         THEN Throw("Target is not a valid directory", <<>>)
    ELSE IF ~hasPermission(f, nodeId, "write")
            \/ ~hasPermission(f, newParentId, "write")
         THEN Throw("Permission denied", <<>>)
    ELSE LET node == f.nodes[nodeId]
             climb == IF node.isDirectory THEN ClimbFrom(f, newParentId, nodeId) ELSE "clear"
         IN IF climb = "hit"
            THEN Throw("Cannot move a directory into its own subdirectory", <<>>)
            ELSE IF climb = "broken" THEN Throw("TypeError", <<>>)
            ELSE IF NameExists(f, f.nodes[newParentId].children, node.name)
                 THEN Throw("already exists in the destination", node.name)
            ELSE LET oldParentId == node.parentId
                     updatedOldParent ==
                         [f.nodes[oldParentId] EXCEPT !.children = Without(@, nodeId)]
                     updatedNewParent ==
                         [f.nodes[newParentId] EXCEPT !.children = Append(@, nodeId)]
                     updatedNode == [node EXCEPT !.parentId = newParentId]
                 IN Return([f EXCEPT !.nodes =
                        [id \in DOMAIN f.nodes |->
                            IF id = newParentId THEN updatedNewParent
                            ELSE IF id = oldParentId THEN updatedOldParent
                            ELSE IF id = nodeId THEN updatedNode
                            ELSE f.nodes[id]]])

\* Mutant of moveNode: the node is put first in the destination's children.
moveNodePrepends(f, nodeId, newParentId) ==
    IF ~IsNode(f, nodeId) THEN Throw("Source node not found", <<>>)
    ELSE IF ~IsNode(f, newParentId) \/ ~f.nodes[newParentId].isDirectory
         THEN Throw("Target is not a valid directory", <<>>)
    ELSE IF ~hasPermission(f, f.nodes[nodeId].parentId, "write")
            \/ ~hasPermission(f, newParentId, "write")
         THEN Throw("Permission denied", <<>>)
    ELSE LET node == f.nodes[nodeId]
             climb == IF node.isDirectory THEN ClimbFrom(f, newParentId, nodeId) ELSE "clear"
         IN IF climb = "hit"
            THEN Throw("Cannot move a directory into its own subdirectory", <<>>)
            ELSE IF climb = "broken" THEN Throw("TypeError", <<>>)
            ELSE IF NameExists(f, f.nodes[newParentId].children, node.name)
                 THEN Throw("already exists in the destination", node.name)
            ELSE LET oldParentId == node.parentId
                     updatedOldParent ==
                         [f.nodes[oldParentId] EXCEPT !.children = Without(@, nodeId)]
                     updatedNewParent ==
                         [f.nodes[newParentId] EXCEPT !.children = <<nodeId>> \o @]
                     updatedNode == [node EXCEPT !.parentId = newParentId]
                 IN Return([f EXCEPT !.nodes =
                        [id \in DOMAIN f.nodes |->
                            IF id = newParentId THEN updatedNewParent
                            ELSE IF id = oldParentId THEN updatedOldParent
                            ELSE IF id = nodeId THEN updatedNode
                            ELSE f.nodes[id]]])

moveNode(f, nodeId, newParentId) ==
    IF ~IsNode(f, nodeId) THEN Throw("Source node not found", <<>>)
    ELSE IF ~IsNode(f, newParentId) \/ ~f.nodes[newParentId].isDirectory
         THEN Throw("Target is not a valid directory", <<>>)
    ELSE IF ~hasPermission(f, f.nodes[nodeId].parentId, "write")
            \/ ~hasPermission(f, newParentId, "write")
         THEN Throw("Permission denied", <<>>)
    ELSE LET node == f.nodes[nodeId]
             climb == IF node.isDirectory THEN ClimbFrom(f, newParentId, nodeId) ELSE "clear"
         IN IF climb = "hit"
            THEN Throw("Cannot move a directory into its own subdirectory", <<>>)
            ELSE IF climb = "broken" THEN Throw("TypeError", <<>>)
            ELSE IF NameExists(f, f.nodes[newParentId].children, node.name)
                 THEN Throw("already exists in the destination", node.name)
            ELSE LET oldParentId == node.parentId
                     updatedOldParent ==
                         [f.nodes[oldParentId] EXCEPT !.children = Without(@, nodeId)]
                     updatedNewParent ==
                         [f.nodes[newParentId] EXCEPT !.children = Append(@, nodeId)]
                     updatedNode == [node EXCEPT !.parentId = newParentId]
                 IN Return([f EXCEPT !.nodes =
                        [id \in DOMAIN f.nodes |->
                            IF id = newParentId THEN updatedNewParent
                            ELSE IF id = oldParentId THEN updatedOldParent
                            ELSE IF id = nodeId THEN updatedNode
                            ELSE f.nodes[id]]])

\* ------------------------------------------------------------------ removeNode
\* Mutant of FreeBlocks: only startBlock is reset.
FreeBlocksStartOnly(f, node) ==
    [b \in DOMAIN f.blocks |->
        IF ~node.isDirectory /\ node.startBlock = b
        THEN [f.blocks[b] EXCEPT !.fileId = Null, !.nextBlock = Null, !.content = <<>>]
        ELSE f.blocks[b]]

\* Mutant of FreeBlocks: every block of the disk is reset.
FreeBlocksOfEveryFile(f, node) ==
    [b \in DOMAIN f.blocks |->
        IF ~node.isDirectory
        THEN [f.blocks[b] EXCEPT !.fileId = Null, !.nextBlock = Null, !.content = <<>>]
        ELSE f.blocks[b]]

\* updatedBlocks after fileNode.blockAllocation.blocks.forEach(...)
FreeBlocks(f, node) ==
    [b \in DOMAIN f.blocks |->
        IF ~node.isDirectory /\ \E i \in 1..Len(node.blocks) : node.blocks[i] = b
        THEN [f.blocks[b] EXCEPT !.fileId = Null, !.nextBlock = Null, !.content = <<>>]
        ELSE f.blocks[b]]

\* Mutant of Detach: the returned snapshot keeps the blocks it was given.
DetachKeepsBlocks(f, node) ==
    LET updatedParent == [f.nodes[node.parentId] EXCEPT !.children = Without(@, node.id)]
    IN [f EXCEPT
          !.nodes = [id \in (DOMAIN f.nodes \ {node.id}) \cup {node.parentId} |->
                        IF id = node.parentId THEN updatedParent ELSE f.nodes[id]]]

\* {...fs, nodes: {...remainingNodes, [parentId]: updatedParent}, blocks: updatedBlocks}
Detach(f, node) ==
    LET updatedParent == [f.nodes[node.parentId] EXCEPT !.children = Without(@, node.id)]
    IN [f EXCEPT
          !.nodes = [id \in (DOMAIN f.nodes \ {node.id}) \cup {node.parentId} |->
                        IF id = node.parentId THEN updatedParent ELSE f.nodes[id]],
          !.blocks = FreeBlocks(f, node)]

\* Mutant of NoParent: the test for the root is gone.
NoParentNever(node) == FALSE

\* if (!parentId): the node is the root.
NoParent(node) == node.parentId = Null

RECURSIVE removeNode(_, _, _)
RECURSIVE RemoveChildren(_, _, _, _)

\* Mutant of RemoveChildren: a child whose removal throws is skipped.
RECURSIVE RemoveChildrenSkipsFailures(_, _, _, _)
RemoveChildrenSkipsFailures(newFs, f, path, children) ==
    IF children = <<>> THEN Return(newFs)
    ELSE LET childPath == path \o <<"/">> \o f.nodes[Head(children)].name
             step == removeNode(newFs, childPath, TRUE)
         IN IF ~step.ok THEN RemoveChildrenSkipsFailures(newFs, f, path, Tail(children))
            ELSE RemoveChildrenSkipsFailures(step.fs, f, path, Tail(children))

\* The loop "for (const childId of dirNode.children)": newFs is the snapshot
\* so far, f the snapshot removeNode was given, children the ids still to do.
RemoveChildren(newFs, f, path, children) ==
    IF children = <<>> THEN Return(newFs)
    ELSE LET childPath == path \o <<"/">> \o f.nodes[Head(children)].name
             step == removeNode(newFs, childPath, TRUE)
         IN IF ~step.ok THEN step
            ELSE RemoveChildren(step.fs, f, path, Tail(children))

\* Mutant of removeNode: write permission is asked on the node's parent.
removeNodeChecksParent(f, path, recursive) ==
    LET nodeId == getNodeByPath(f, path)
    IN IF nodeId = Null THEN Throw("No such file or directory", <<>>)
       ELSE IF ~hasPermission(f, f.nodes[nodeId].parentId, "write")
            THEN Throw("Permission denied", <<>>)
       ELSE LET node == f.nodes[nodeId]
            IN IF node.isDirectory /\ Len(node.children) > 0 /\ ~recursive
               THEN Throw("Directory not empty", <<>>)
               ELSE IF NoParent(node) THEN Throw("Cannot remove root directory", <<>>)
               ELSE IF ~IsNode(f, node.parentId) THEN Throw("TypeError", <<>>)
               ELSE IF node.isDirectory /\ recursive
                    THEN RemoveChildren(Detach(f, node), f, path, node.children)
                    ELSE Return(Detach(f, node))

\* Mutant of removeNode: a directory with a single child counts as empty.
removeNodeAllowsOneChild(f, path, recursive) ==
    LET nodeId == getNodeByPath(f, path)
    IN IF nodeId = Null THEN Throw("No such file or directory", <<>>)
       ELSE IF ~hasPermission(f, nodeId, "write") THEN Throw("Permission denied", <<>>)
       ELSE LET node == f.nodes[nodeId]
            IN IF node.isDirectory /\ Len(node.children) > 1 /\ ~recursive
               THEN Throw("Directory not empty", <<>>)
               ELSE IF NoParent(node) THEN Throw("Cannot remove root directory", <<>>)
               ELSE IF ~IsNode(f, node.parentId) THEN Throw("TypeError", <<>>)
               ELSE IF node.isDirectory /\ recursive
                    THEN RemoveChildren(Detach(f, node), f, path, node.children)
                    ELSE Return(Detach(f, node))

removeNode(f, path, recursive) ==
    LET nodeId == getNodeByPath(f, path)
    IN IF nodeId = Null THEN Throw("No such file or directory", <<>>)
       ELSE IF ~hasPermission(f, nodeId, "write") THEN Throw("Permission denied", <<>>)
       ELSE LET node == f.nodes[nodeId]
            IN IF node.isDirectory /\ Len(node.children) > 0 /\ ~recursive
               THEN Throw("Directory not empty", <<>>)
               ELSE IF NoParent(node) THEN Throw("Cannot remove root directory", <<>>)
               ELSE IF ~IsNode(f, node.parentId) THEN Throw("TypeError", <<>>)
               ELSE IF node.isDirectory /\ recursive
                    THEN RemoveChildren(Detach(f, node), f, path, node.children)
                    ELSE Return(Detach(f, node))

\* --------------------------------------------------------- command interpreter
\* A command's output is a sequence of lines (joined by "\n" in the code).
\* A diagnostic line `<cmd>: <message>` or `<cmd>: <path>: <message>`:
Diag(cmd, path, err) == [cmd |-> cmd, path |-> path, text |-> err.text, name |-> err.name]
\* A line of ordinary output (a name, a path, a file's content):
Plain(payload) == [cmd |-> <<>>, path |-> payload, text |-> "", name |-> <<>>]
Msg(text) == [text |-> text, name |-> <<>>]
\* The empty string is no line at all.
Text(payload) == IF payload = <<>> THEN <<>> ELSE <<Plain(payload)>>

Result(output, newFileSystem) == [output |-> output, newFileSystem |-> newFileSystem]

\* commandLine.trim().split(/\s+/): a command line is its sequence of words.
parseCommand(commandLine) ==
    [ command |-> IF commandLine = <<>> THEN <<>> ELSE Head(commandLine),
      args |-> IF commandLine = <<>> THEN <<>> ELSE Tail(commandLine) ]

\* '/' + parts.join('/') over the names from the node up to the root.
RECURSIVE PathParts(_, _)
PathParts(f, id) ==
    IF ~IsNode(f, id) \/ f.nodes[id].parentId = Null THEN <<>>
    ELSE PathParts(f, f.nodes[id].parentId) \o <<"/">> \o f.nodes[id].name

getNodePath(f, nodeId) ==
    IF ~IsNode(f, nodeId) THEN <<>>
    ELSE IF f.nodes[nodeId].parentId = Null THEN W_slash
    ELSE PathParts(f, nodeId)

\* dirNode.children.map(childId => fs.nodes[childId]).filter(Boolean)
getDirectoryChildren(f, dirId) ==
    IF ~IsNode(f, dirId) \/ ~f.nodes[dirId].isDirectory THEN <<>>
    ELSE SelectSeq(f.nodes[dirId].children, LAMBDA childId : IsNode(f, childId))

\* Mutant of cmdLs: the listed directory becomes the current directory.
cmdLsEntersDirectory(args, f) ==
    LET node == IF Len(args) > 0 THEN getNodeByPath(f, args[1]) ELSE f.currentDirectory
    IN IF Len(args) > 0 /\ node = Null
       THEN Result(<<Diag(W_ls, args[1], Msg("No such file or directory"))>>, f)
       ELSE IF Len(args) > 0 /\ ~f.nodes[node].isDirectory
            THEN Result(<<Plain(f.nodes[node].name)>>, f)
       ELSE IF ~hasPermission(f, node, "read")
            THEN Result(<<Diag(W_ls, <<>>, Msg("Permission denied"))>>, f)
       ELSE LET children == getDirectoryChildren(f, node)
                lines == [i \in 1..Len(children) |->
                            Plain(f.nodes[children[i]].name
                                  \o (IF f.nodes[children[i]].isDirectory THEN <<"/">> ELSE <<>>))]
            IN Result(IF lines = <<>> THEN <<Plain(<<"(empty directory)">>)>> ELSE lines,
                      [f EXCEPT !.currentDirectory = node])

\* One listing line per child; of its fields only the name (with "/" for a
\* directory) is kept.
cmdLs(args, f) ==
    LET node == IF Len(args) > 0 THEN getNodeByPath(f, args[1]) ELSE f.currentDirectory
    IN IF Len(args) > 0 /\ node = Null
       THEN Result(<<Diag(W_ls, args[1], Msg("No such file or directory"))>>, f)
       ELSE IF Len(args) > 0 /\ ~f.nodes[node].isDirectory
            THEN Result(<<Plain(f.nodes[node].name)>>, f)
       ELSE IF ~hasPermission(f, node, "read")
            THEN Result(<<Diag(W_ls, <<>>, Msg("Permission denied"))>>, f)
       ELSE LET children == getDirectoryChildren(f, node)
                lines == [i \in 1..Len(children) |->
                            Plain(f.nodes[children[i]].name
                                  \o (IF f.nodes[children[i]].isDirectory THEN <<"/">> ELSE <<>>))]
            IN Result(IF lines = <<>> THEN <<Plain(<<"(empty directory)">>)>> ELSE lines, f)

cmdCd(args, f) ==
    IF Len(args) = 0
    THEN IF FindRoot(f) # Null
         THEN Result(<<>>, [f EXCEPT !.currentDirectory = FindRoot(f)])
         ELSE Result(<<Diag(W_cd, <<>>, Msg("No root directory found"))>>, f)
    ELSE LET path == args[1]
         IN IF path = W_dotdot /\ (~IsNode(f, f.currentDirectory)
                                     \/ f.nodes[f.currentDirectory].parentId = Null)
            THEN Result(<<>>, f)
            ELSE LET node == getNodeByPath(f, path)
                     targetId == IF path = W_dotdot
                                 THEN f.nodes[f.currentDirectory].parentId
                                 ELSE node
                 IN IF path # W_dotdot /\ node = Null
                    THEN Result(<<Diag(W_cd, path, Msg("No such file or directory"))>>, f)
                    ELSE IF path # W_dotdot /\ ~f.nodes[node].isDirectory
                         THEN Result(<<Diag(W_cd, path, Msg("Not a directory"))>>, f)
                    ELSE IF ~hasPermission(f, targetId, "execute")
                         THEN Result(<<Diag(W_cd, <<>>, Msg("Permission denied"))>>, f)
                    ELSE Result(<<>>, [f EXCEPT !.currentDirectory = targetId])

\* The loop of cmdMkdir / cmdTouch: newFs = create(newFs, newFs.currentDirectory,
\* name) for each argument; the first throw ends the loop.
\* Mutant of MkdirLoop: the directories are made in the root.
RECURSIVE MkdirLoopInRoot(_, _)
MkdirLoopInRoot(newFs, names) ==
    IF names = <<>> THEN Return(newFs)
    ELSE LET step == createDirectory(newFs, FindRoot(newFs), Head(names))
         IN IF ~step.ok THEN step ELSE MkdirLoopInRoot(step.fs, Tail(names))

RECURSIVE MkdirLoop(_, _)
MkdirLoop(newFs, names) ==
    IF names = <<>> THEN Return(newFs)
    ELSE LET step == createDirectory(newFs, newFs.currentDirectory, Head(names))
         IN IF ~step.ok THEN step ELSE MkdirLoop(step.fs, Tail(names))

\* Mutant of cmdMkdir: the catch returns the snapshot the loop had reached.
RECURSIVE MkdirPrefix(_, _)
MkdirPrefix(newFs, names) ==
    IF names = <<>> THEN newFs
    ELSE LET step == createDirectory(newFs, newFs.currentDirectory, Head(names))
         IN IF ~step.ok THEN newFs ELSE MkdirPrefix(step.fs, Tail(names))

cmdMkdirKeepsPrior(args, f) ==
    IF Len(args) = 0 THEN Result(<<Diag(W_mkdir, <<>>, Msg("missing operand"))>>, f)
    ELSE LET loop == MkdirLoop(f, args)
         IN IF loop.ok THEN Result(<<>>, loop.fs)
            ELSE Result(<<Diag(W_mkdir, <<>>, loop.err)>>, MkdirPrefix(f, args))

cmdMkdir(args, f) ==
    IF Len(args) = 0 THEN Result(<<Diag(W_mkdir, <<>>, Msg("missing operand"))>>, f)
    ELSE LET loop == MkdirLoop(f, args)
         IN IF loop.ok THEN Result(<<>>, loop.fs)
            ELSE Result(<<Diag(W_mkdir, <<>>, loop.err)>>, f)

RECURSIVE TouchLoop(_, _)
TouchLoop(newFs, names) ==
    IF names = <<>> THEN Return(newFs)
    ELSE LET step == createFile(newFs, newFs.currentDirectory, Head(names), <<>>)
         IN IF ~step.ok THEN step ELSE TouchLoop(step.fs, Tail(names))

\* Mutant of cmdTouch: the catch returns the snapshot the loop had reached.
RECURSIVE TouchPrefix(_, _)
TouchPrefix(newFs, names) ==
    IF names = <<>> THEN newFs
    ELSE LET step == createFile(newFs, newFs.currentDirectory, Head(names), <<>>)
         IN IF ~step.ok THEN newFs ELSE TouchPrefix(step.fs, Tail(names))

cmdTouchKeepsPrior(args, f) ==
    IF Len(args) = 0 THEN Result(<<Diag(W_touch, <<>>, Msg("missing operand"))>>, f)
    ELSE LET loop == TouchLoop(f, args)
         IN IF loop.ok THEN Result(<<>>, loop.fs)
            ELSE Result(<<Diag(W_touch, <<>>, loop.err)>>, TouchPrefix(f, args))

cmdTouch(args, f) ==
    IF Len(args) = 0 THEN Result(<<Diag(W_touch, <<>>, Msg("missing operand"))>>, f)
    ELSE LET loop == TouchLoop(f, args)
         IN IF loop.ok THEN Result(<<>>, loop.fs)
            ELSE Result(<<Diag(W_touch, <<>>, loop.err)>>, f)

cmdCat(args, f) ==
    IF Len(args) = 0 THEN Result(<<Diag(W_cat, <<>>, Msg("missing operand"))>>, f)
    ELSE LET node == getNodeByPath(f, args[1])
         IN IF node = Null
            THEN Result(<<Diag(W_cat, args[1], Msg("No such file or directory"))>>, f)
            ELSE IF f.nodes[node].isDirectory
                 THEN Result(<<Diag(W_cat, args[1], Msg("Is a directory"))>>, f)
            ELSE IF ~hasPermission(f, node, "read")
                 THEN Result(<<Diag(W_cat, <<>>, Msg("Permission denied"))>>, f)
            ELSE Result(Text(f.nodes[node].content), f)

cmdPwd(args, f) == Result(Text(getNodePath(f, f.currentDirectory)), f)

\* Mutant of RmLoop: the first throw ends the loop, as in cmdMkdir.
RECURSIVE RmLoopStopsAtFirstError(_, _, _, _)
RmLoopStopsAtFirstError(newFs, errors, filePaths, recursive) ==
    IF filePaths = <<>> THEN Result(errors, newFs)
    ELSE LET step == removeNode(newFs, Head(filePaths), recursive)
         IN IF step.ok
            THEN RmLoopStopsAtFirstError(step.fs, errors, Tail(filePaths), recursive)
            ELSE Result(Append(errors, Diag(W_rm, Head(filePaths), step.err)), newFs)

\* The loop of cmdRm: every path is tried on the snapshot so far; a throw adds
\* a line to errors and leaves newFs as it was.
RECURSIVE RmLoop(_, _, _, _)
RmLoop(newFs, errors, filePaths, recursive) ==
    IF filePaths = <<>> THEN Result(errors, newFs)
    ELSE LET step == removeNode(newFs, Head(filePaths), recursive)
         IN IF step.ok
            THEN RmLoop(step.fs, errors, Tail(filePaths), recursive)
            ELSE RmLoop(newFs, Append(errors, Diag(W_rm, Head(filePaths), step.err)),
                        Tail(filePaths), recursive)

cmdRm(args, f) ==
    IF Len(args) = 0 THEN Result(<<Diag(W_rm, <<>>, Msg("missing operand"))>>, f)
    ELSE LET recursive == args[1] = W_r \/ args[1] = W_rf
             filePaths == IF recursive THEN Tail(args) ELSE args
         IN IF Len(filePaths) = 0
            THEN Result(<<Diag(W_rm, <<>>, Msg("missing operand"))>>, f)
            ELSE RmLoop(f, <<>>, filePaths, recursive)

executeCommand(f, commandLine) ==
    LET command == parseCommand(commandLine).command
        args == parseCommand(commandLine).args
    IN CASE command = W_ls -> cmdLs(args, f)
         [] command = W_cd -> cmdCd(args, f)
         [] command = W_mkdir -> cmdMkdir(args, f)
         [] command = W_touch -> cmdTouch(args, f)
         [] command = W_cat -> cmdCat(args, f)
         [] command = W_pwd -> cmdPwd(args, f)
         [] command = W_rm -> cmdRm(args, f)
         [] OTHER -> Result(<<[cmd |-> <<>>, path |-> command,
                               text |-> "Command not found", name |-> <<>>]>>, f)

\* The command lines the terminal sends.
CommandLines ==
    {<<>>, <<N_a>>, <<W_pwd>>, <<W_ls>>, <<W_cd>>, <<W_cat>>, <<W_mkdir>>, <<W_touch>>,
     <<W_rm>>, <<W_rm, W_r>>}
    \cup {<<w, p>> : w \in {W_ls, W_cat, W_rm}, p \in Paths}
    \cup {<<W_cd, p>> : p \in Paths \cup {W_dotdot}}
    \cup {<<w, n>> : w \in {W_mkdir, W_touch}, n \in Names}
    \cup {<<w, n, m>> : w \in {W_mkdir, W_touch}, n \in Names, m \in Names}
    \cup {<<W_rm, p, q>> : p \in Names, q \in Names}
    \cup {<<W_rm, flag, p>> : flag \in {W_r, W_rf}, p \in Paths}
    \cup {<<W_rm, W_r, p, q>> : p \in Names, q \in Names}

\* ---------------------------------------------------------- ids up to renaming
\* The ids in the order a walk from `id` down the children lists meets them
\* (`fuel` bounds the depth of the walk).
RECURSIVE Preorder(_, _, _)
RECURSIVE PreorderAll(_, _, _)
Preorder(f, id, fuel) ==
    <<id>> \o (IF f.nodes[id].isDirectory /\ fuel > 0
               THEN PreorderAll(f, f.nodes[id].children, fuel - 1)
               ELSE <<>>)
PreorderAll(f, children, fuel) ==
    IF children = <<>> THEN <<>>
    ELSE (IF IsNode(f, Head(children)) THEN Preorder(f, Head(children), fuel) ELSE <<>>)
         \o PreorderAll(f, Tail(children), fuel)

\* The snapshot with its ids renamed to their position in the walk from the
\* root; an id that names no node (the current directory after its removal)
\* becomes the first id after them.  A snapshot whose walk does not meet every
\* node exactly once is left as it is.
Canonical(f) ==
    LET root == FindRoot(f)
        order == IF root = Null THEN <<>> ELSE Preorder(f, root, Cardinality(DOMAIN f.nodes))
        count == Len(order)
        Rename(id) ==
            IF id = Null THEN Null
            ELSE IF \E i \in 1..count : order[i] = id
                 THEN (CHOOSE i \in 1..count : order[i] = id) - 1
                 ELSE count
    IN IF \/ root = Null
          \/ count # Cardinality(DOMAIN f.nodes)
          \/ {order[i] : i \in 1..count} # DOMAIN f.nodes
       THEN f
       ELSE [f EXCEPT
               !.nodes = [new \in 0..(count - 1) |->
                            LET node == f.nodes[order[new + 1]]
                            IN [node EXCEPT
                                  !.id = Rename(@),
                                  !.parentId = Rename(@),
                                  !.children = [k \in 1..Len(node.children) |->
                                                   Rename(node.children[k])]]],
               !.blocks = [b \in DOMAIN f.blocks |->
                             [f.blocks[b] EXCEPT !.fileId = Rename(@)]],
               !.currentDirectory = Rename(@)]

\* ------------------------------------------------------------------- the calls
\* A snapshot within the bounds of the model.
InBounds(f) == Cardinality(DOMAIN f.nodes) <= MaxIds + 1

\* The ids a caller may pass: those of the snapshot's nodes and one of no node.
IdArgs == 0..(MaxIds + 1)

\* The caller goes on with the snapshot the call returned.  A call that threw
\* returned none: the caller still holds fs, which is a stuttering step.
Call(outcome) ==
    /\ outcome.ok
    /\ InBounds(outcome.fs)
    /\ fs' = Canonical(outcome.fs)

CreateDirectory ==
    \E parentId \in IdArgs, name \in Names :
        Call(createDirectory(fs, parentId, name))

CreateFile ==
    \E parentId \in IdArgs, name \in Names, content \in Contents :
        Call(createFile(fs, parentId, name, content))

MoveNode ==
    \E nodeId \in IdArgs, newParentId \in IdArgs :
        Call(moveNode(fs, nodeId, newParentId))

RemoveNode ==
    \E path \in Paths, recursive \in BOOLEAN :
        Call(removeNode(fs, path, recursive))

\* Terminal: const { output, newFileSystem } = executeCommand(fileSystem, cmd);
\* onFileSystemChange(newFileSystem)
ExecuteCommand ==
    \E commandLine \in CommandLines :
        LET result == executeCommand(fs, commandLine)
        IN /\ InBounds(result.newFileSystem)
           /\ fs' = Canonical(result.newFileSystem)

Init ==
    fs = initializeFileSystem(BlockSize, TotalBlocks)

Next ==
    \/ CreateDirectory
    \/ CreateFile
    \/ MoveNode
    \/ RemoveNode
    \/ ExecuteCommand

Spec == Init /\ [][Next]_vars

\* The flat disk: files of both sizes are created in the root and removed.
DiskCreateFile ==
    \E name \in DiskNames, content \in DiskContents :
        Call(createFile(fs, RootId, name, content))

DiskRemoveNode ==
    \E path \in DiskNames :
        Call(removeNode(fs, path, FALSE))

DiskNext ==
    \/ DiskCreateFile
    \/ DiskRemoveNode

SpecDisk == Init /\ [][DiskNext]_vars
\* --------------------------------------------------------- users and grants
\* A second user, who is no admin, and an id that names no user.
GuestId == "guest"
NobodyId == "nobody"
Guest == [id |-> GuestId, username |-> GuestId, isAdmin |-> FALSE]

\* What a node's permission table says about the guest: no entry, or an entry
\* with these flags.
GrantOptions ==
    { [has |-> FALSE, read |-> FALSE, write |-> FALSE, execute |-> FALSE],
      [has |-> TRUE, read |-> FALSE, write |-> TRUE, execute |-> FALSE],
      [has |-> TRUE, read |-> TRUE, write |-> FALSE, execute |-> FALSE],
      [has |-> TRUE, read |-> TRUE, write |-> FALSE, execute |-> TRUE] }

\* The tree the admin made: directories a and c in the root, b in a.
UserTree ==
    LET made_a == createDirectory(initializeFileSystem(BlockSize, TotalBlocks), RootId, N_a).fs
        made_b == createDirectory(made_a, getNodeByPath(made_a, N_a), N_b).fs
    IN createDirectory(made_b, RootId, N_c).fs

\* The snapshot with the guest among the users and, in each node's permission
\* table, the entry grants[id] says.
WithGrants(f, grants) ==
    [f EXCEPT
        !.users = @ @@ (GuestId :> Guest),
        !.nodes = [id \in DOMAIN f.nodes |->
                      [f.nodes[id] EXCEPT
                          !.permissions =
                              IF grants[id].has
                              THEN @ @@ (GuestId :> [read |-> grants[id].read,
                                                     write |-> grants[id].write,
                                                     execute |-> grants[id].execute])
                              ELSE @]]]

\* The cd command lines.
CdLines ==
    {<<W_cd>>, <<W_cd, W_dotdot>>}
    \cup {<<W_cd, p>> : p \in {N_a, N_b, N_c, N_ab}}

UsersInit ==
    \E grants \in [DOMAIN UserTree.nodes -> GrantOptions],
       user \in {AdminId, GuestId, NobodyId} :
        /\ user # GuestId => \A id \in DOMAIN grants : ~grants[id].has
        /\ fs = [WithGrants(UserTree, grants) EXCEPT !.currentUser = user]

UsersMoveNode ==
    \E nodeId \in IdArgs, newParentId \in IdArgs :
        Call(moveNode(fs, nodeId, newParentId))

UsersCd ==
    \E commandLine \in CdLines :
        fs' = Canonical(executeCommand(fs, commandLine).newFileSystem)

UsersNext ==
    \/ UsersMoveNode
    \/ UsersCd

SpecUsers == UsersInit /\ [][UsersNext]_vars

\* ------------------------------------------------- content with wide characters
\* Files whose content holds a character of two bytes are created in the
\* root and removed.
WideNames == {N_a, N_b, N_c}
WideContents == {<<"U00E9">>, <<"U00E9", "U00E9">>, <<"x", "U00E9", "y">>, <<"x", "y", "z">>}

WideCreateFile ==
    \E name \in WideNames, content \in WideContents :
        Call(createFile(fs, RootId, name, content))

WideRemoveNode ==
    \E path \in WideNames :
        Call(removeNode(fs, path, FALSE))

WideNext ==
    \/ WideCreateFile
    \/ WideRemoveNode

SpecWide == Init /\ [][WideNext]_vars

\* ------------------------------------------------------ allocation strategies
\* FileSystem.allocationStrategy: 'contiguous' | 'linked' | 'indexed'.  The
\* snapshot a caller of the library starts from has any of the three.
Strategies == {"contiguous", "linked", "indexed"}
StrategyNames == {N_a, N_b}
StrategyContents == {<<>>, <<"x", "y", "z">>}
StrategyLines ==
    {<<w, n>> : w \in {W_mkdir, W_touch, W_rm, W_cd}, n \in StrategyNames}
    \cup {<<W_cd>>}

StrategyInit ==
    \E strategy \in Strategies :
        fs = [initializeFileSystem(BlockSize, TotalBlocks) EXCEPT
                 !.allocationStrategy = strategy]

StrategyCreateDirectory ==
    \E parentId \in IdArgs, name \in StrategyNames :
        Call(createDirectory(fs, parentId, name))

StrategyCreateFile ==
    \E parentId \in IdArgs, name \in StrategyNames, content \in StrategyContents :
        Call(createFile(fs, parentId, name, content))

StrategyCommand ==
    \E commandLine \in StrategyLines :
        LET result == executeCommand(fs, commandLine)
        IN /\ InBounds(result.newFileSystem)
           /\ fs' = Canonical(result.newFileSystem)

StrategyNext ==
    \/ StrategyCreateDirectory
    \/ StrategyCreateFile
    \/ StrategyCommand

SpecStrategy == StrategyInit /\ [][StrategyNext]_vars

\* ------------------------------------------------------ the assembled application
\* The FileSystem component holds the snapshot (useState) and renders the
\* Terminal with onFileSystemChange={handleFileSystemChange} and the
\* FileExplorer without that prop.
TerminalOnFileSystemChange == TRUE
ExplorerOnFileSystemChange == FALSE

NoToast == ""
Dropped(fileSystem, toast) == [fileSystem |-> fileSystem, toast |-> toast]

\* handleDrop of the tree item of `node`, with the dragged node's id in the
\* event: the snapshot the application holds afterwards and the toast shown.
\* "onFileSystemChange && onFileSystemChange(newFileSystem)" hands the new
\* snapshot over only if the prop was passed.
handleDrop(fileSystem, node, sourceNodeId, onFileSystemChange) ==
    IF ~fileSystem.nodes[node].isDirectory THEN Dropped(fileSystem, NoToast)
    ELSE IF sourceNodeId = node THEN Dropped(fileSystem, NoToast)
    ELSE LET call == moveNode(fileSystem, sourceNodeId, node)
         IN IF ~call.ok THEN Dropped(fileSystem, "Move failed")
            ELSE Dropped(IF onFileSystemChange THEN call.fs ELSE fileSystem, "Item moved")

\* Terminal: executeCommand(fileSystem, cmd), then onFileSystemChange.
AppCommand ==
    \E commandLine \in CommandLines :
        LET result == executeCommand(fs, commandLine)
        IN /\ TerminalOnFileSystemChange
           /\ InBounds(result.newFileSystem)
           /\ fs' = Canonical(result.newFileSystem)

\* FileExplorer: a tree item is dropped on a tree item.
AppDrop ==
    \E node \in DOMAIN fs.nodes, sourceNodeId \in DOMAIN fs.nodes :
        LET dropped == handleDrop(fs, node, sourceNodeId, ExplorerOnFileSystemChange)
        IN /\ InBounds(dropped.fileSystem)
           /\ fs' = Canonical(dropped.fileSystem)

AppNext ==
    \/ AppCommand
    \/ AppDrop

SpecApp == Init /\ [][AppNext]_vars

\* ---------------------------------------------------- snapshots as objects
\* A snapshot as the objects the code holds: a heap is a function from
\* addresses to objects.  The FileSystem object holds the addresses of its
\* nodes map and of its blocks array; the nodes map holds the address of each
\* node object, the blocks array that of each block object.  A node object is
\* the node record with what it refers to (children, permissions, metadata).
FsAddr == 0
NodeAddr(f, id) == 3 + 2 * id
BlockAddr(f, b) == 4 + 2 * b

\* The objects of snapshot f, as initializeFileSystem or a caller built them.
HeapOf(f) ==
    LET NodeAddrs == {NodeAddr(f, id) : id \in DOMAIN f.nodes}
        BlockAddrs == {BlockAddr(f, b) : b \in DOMAIN f.blocks}
    IN [a \in {FsAddr, 1, 2} \cup NodeAddrs \cup BlockAddrs |->
          IF a = FsAddr THEN [f EXCEPT !.nodes = 1, !.blocks = 2]
          ELSE IF a = 1 THEN [id \in DOMAIN f.nodes |-> NodeAddr(f, id)]
          ELSE IF a = 2 THEN [b \in DOMAIN f.blocks |-> BlockAddr(f, b)]
          ELSE IF a \in NodeAddrs
               THEN f.nodes[CHOOSE id \in DOMAIN f.nodes : NodeAddr(f, id) = a]
               ELSE f.blocks[CHOOSE b \in DOMAIN f.blocks : BlockAddr(f, b) = a]]

\* The snapshot that the FileSystem object at address a of heap h denotes.
Deref(h, a) ==
    [h[a] EXCEPT
        !.nodes = [id \in DOMAIN h[@] |-> h[h[@][id]]],
        !.blocks = [b \in DOMAIN h[@] |-> h[h[@][b]]]]

\* A new object: the heap with `object` at the first address not in use.
NewAddr(h) == CHOOSE a \in 0..Cardinality(DOMAIN h) : a \notin DOMAIN h
New(h, object) == h @@ (NewAddr(h) :> object)

\* The outcome of a call on objects: the heap after it and, when it returned,
\* the address of the FileSystem object it returned.
ReturnAt(h, at) == [ok |-> TRUE, h |-> h, at |-> at, err |-> [text |-> "", name |-> <<>>]]
ThrowAt(h, err) == [ok |-> FALSE, h |-> h, at |-> Null, err |-> err]

\* Mutant of WriteEntries: an entry whose key the map already has is written
\* into the object the map holds (Object.assign(map[key], object)).
RECURSIVE WriteEntriesInPlace(_, _, _)
WriteEntriesInPlace(h, map, objects) ==
    IF DOMAIN objects = {} THEN [h |-> h, map |-> map]
    ELSE LET key == CHOOSE k \in DOMAIN objects : \A other \in DOMAIN objects : k <= other
             rest == [k \in DOMAIN objects \ {key} |-> objects[k]]
         IN IF key \in DOMAIN map
            THEN WriteEntriesInPlace([h EXCEPT ![map[key]] = objects[key]], map, rest)
            ELSE WriteEntriesInPlace(New(h, objects[key]),
                                     [k \in DOMAIN map \cup {key} |->
                                         IF k = key THEN NewAddr(h) ELSE map[k]],
                                     rest)

\* The entries `[key]: {...}` of an object or array literal that spreads
\* `map`: each is a new object, and the copy of the map holds its address.
RECURSIVE WriteEntries(_, _, _)
WriteEntries(h, map, objects) ==
    IF DOMAIN objects = {} THEN [h |-> h, map |-> map]
    ELSE LET key == CHOOSE k \in DOMAIN objects : \A other \in DOMAIN objects : k <= other
             rest == [k \in DOMAIN objects \ {key} |-> objects[k]]
         IN WriteEntries(New(h, objects[key]),
                         [k \in DOMAIN map \cup {key} |->
                             IF k = key THEN NewAddr(h) ELSE map[k]],
                         rest)

\* return {...fs, nodes: {...kept, [id]: record, ...}, blocks: updatedBlocks}
\* where newFs is the snapshot returned, `written` the ids of the node
\* records the literal writes, and `rewritten` the indices of the blocks
\* that updatedBlocks = [...fs.blocks] got a new object for.
SpreadNodesAndBlocks(h, at, newFs, written, rewritten) ==
    LET kept == [id \in DOMAIN newFs.nodes \cap DOMAIN h[h[at].nodes] |-> h[h[at].nodes][id]]
        nodes == WriteEntries(h, kept, [id \in written |-> newFs.nodes[id]])
        withNodes == New(nodes.h, nodes.map)
        blocks == WriteEntries(withNodes, h[h[at].blocks],
                               [b \in rewritten |-> newFs.blocks[b]])
        withBlocks == New(blocks.h, blocks.map)
    IN ReturnAt(New(withBlocks, [newFs EXCEPT !.nodes = NewAddr(nodes.h),
                                              !.blocks = NewAddr(blocks.h)]),
                NewAddr(withBlocks))

\* return {...fs, nodes: {...fs.nodes, [id]: record, ...}}: the blocks array
\* of the returned object is the one of fs.
SpreadNodes(h, at, newFs, written) ==
    LET nodes == WriteEntries(h, h[h[at].nodes], [id \in written |-> newFs.nodes[id]])
        withNodes == New(nodes.h, nodes.map)
    IN ReturnAt(New(withNodes, [newFs EXCEPT !.nodes = NewAddr(nodes.h),
                                             !.blocks = h[at].blocks]),
                NewAddr(withNodes))

\* The elements of a list, as a set.
Written(list) == {list[i] : i \in 1..Len(list)}

createDirectoryObjects(h, at, parentId, name) ==
    LET f == Deref(h, at)
        call == createDirectory(f, parentId, name)
    IN IF ~call.ok THEN ThrowAt(h, call.err)
       ELSE SpreadNodes(h, at, call.fs, {uuidv4(f), parentId})

createFileObjects(h, at, parentId, name, content) ==
    LET f == Deref(h, at)
        call == createFile(f, parentId, name, content)
    IN IF ~call.ok THEN ThrowAt(h, call.err)
       ELSE SpreadNodesAndBlocks(h, at, call.fs, {uuidv4(f), parentId},
                                 Written(call.fs.nodes[uuidv4(f)].blocks))

moveNodeObjects(h, at, nodeId, newParentId) ==
    LET f == Deref(h, at)
        call == moveNode(f, nodeId, newParentId)
    IN IF ~call.ok THEN ThrowAt(h, call.err)
       ELSE SpreadNodes(h, at, call.fs, {nodeId, f.nodes[nodeId].parentId, newParentId})

RECURSIVE removeNodeObjects(_, _, _, _)
RECURSIVE RemoveChildrenObjects(_, _, _, _, _)

RemoveChildrenObjects(h, at, f, path, children) ==
    IF children = <<>> THEN ReturnAt(h, at)
    ELSE LET childPath == path \o <<"/">> \o f.nodes[Head(children)].name
             step == removeNodeObjects(h, at, childPath, TRUE)
         IN IF ~step.ok THEN step
            ELSE RemoveChildrenObjects(step.h, step.at, f, path, Tail(children))

removeNodeObjects(h, at, path, recursive) ==
    LET f == Deref(h, at)
        call == removeNode(f, path, recursive)
    IN IF ~call.ok THEN ThrowAt(h, call.err)
       ELSE LET node == f.nodes[getNodeByPath(f, path)]
                newFs == SpreadNodesAndBlocks(h, at, Detach(f, node), {node.parentId},
                                              IF node.isDirectory THEN {}
                                              ELSE Written(node.blocks))
            IN IF node.isDirectory /\ recursive
               THEN RemoveChildrenObjects(newFs.h, newFs.at, f, path, node.children)
               ELSE newFs

RECURSIVE MkdirLoopObjects(_, _, _)
MkdirLoopObjects(h, at, names) ==
    IF names = <<>> THEN ReturnAt(h, at)
    ELSE LET step == createDirectoryObjects(h, at, h[at].currentDirectory, Head(names))
         IN IF ~step.ok THEN step ELSE MkdirLoopObjects(step.h, step.at, Tail(names))

RECURSIVE TouchLoopObjects(_, _, _)
TouchLoopObjects(h, at, names) ==
    IF names = <<>> THEN ReturnAt(h, at)
    ELSE LET step == createFileObjects(h, at, h[at].currentDirectory, Head(names), <<>>)
         IN IF ~step.ok THEN step ELSE TouchLoopObjects(step.h, step.at, Tail(names))

RECURSIVE RmLoopObjects(_, _, _, _)
RmLoopObjects(h, at, filePaths, recursive) ==
    IF filePaths = <<>> THEN ReturnAt(h, at)
    ELSE LET step == removeNodeObjects(h, at, Head(filePaths), recursive)
         IN IF step.ok THEN RmLoopObjects(step.h, step.at, Tail(filePaths), recursive)
            ELSE RmLoopObjects(h, at, Tail(filePaths), recursive)

\* newFileSystem of a handler: fs itself, or the object the handler built.
\* The objects a loop built before its catch are left on the heap, unused.
cmdCdObjects(h, at, args) ==
    LET f == Deref(h, at)
        result == cmdCd(args, f)
        alreadyAtRoot == /\ Len(args) > 0
                         /\ args[1] = W_dotdot
                         /\ \/ ~IsNode(f, f.currentDirectory)
                            \/ f.nodes[f.currentDirectory].parentId = Null
    IN IF result.output # <<>> \/ alreadyAtRoot THEN ReturnAt(h, at)
       ELSE ReturnAt(New(h, [h[at] EXCEPT
                                !.currentDirectory = result.newFileSystem.currentDirectory]),
                     NewAddr(h))

cmdMkdirObjects(h, at, args) ==
    LET loop == MkdirLoopObjects(h, at, args)
    IN IF Len(args) > 0 /\ loop.ok THEN loop ELSE ReturnAt(loop.h, at)

cmdTouchObjects(h, at, args) ==
    LET loop == TouchLoopObjects(h, at, args)
    IN IF Len(args) > 0 /\ loop.ok THEN loop ELSE ReturnAt(loop.h, at)

cmdRmObjects(h, at, args) ==
    LET recursive == Len(args) > 0 /\ (args[1] = W_r \/ args[1] = W_rf)
        filePaths == IF recursive THEN Tail(args) ELSE args
    IN RmLoopObjects(h, at, filePaths, recursive)

executeCommandObjects(h, at, commandLine) ==
    LET command == parseCommand(commandLine).command
        args == parseCommand(commandLine).args
    IN CASE command = W_cd -> cmdCdObjects(h, at, args)
         [] command = W_mkdir -> cmdMkdirObjects(h, at, args)
         [] command = W_touch -> cmdTouchObjects(h, at, args)
         [] command = W_rm -> cmdRmObjects(h, at, args)
         [] OTHER -> ReturnAt(h, at)

\* The caller goes on with the object the call returned, and lets go of
\* every object that it does not reach.  The nodes map holds at most MaxIds
\* node objects.
CallObjects(outcome) ==
    /\ outcome.ok
    /\ Cardinality(DOMAIN outcome.h[outcome.h[outcome.at].nodes]) <= MaxIds
    /\ fs' = Canonical(Deref(outcome.h, outcome.at))

ObjectNames == {N_a, N_b}
ObjectPaths == {N_a, N_b, N_ab}
ObjectContents == {<<"x", "y", "z">>}
ObjectLines ==
    {<<W_ls>>, <<W_cd>>, <<W_mkdir>>, <<W_rm, W_r, N_a>>, <<W_cd, W_dotdot>>}
    \cup {<<w, n>> : w \in {W_mkdir, W_touch, W_rm, W_cd}, n \in ObjectNames}
    \cup {<<w, N_a, N_b>> : w \in {W_mkdir, W_touch, W_rm}}

ObjectsCreateDirectory ==
    \E parentId \in IdArgs, name \in ObjectNames :
        CallObjects(createDirectoryObjects(HeapOf(fs), FsAddr, parentId, name))

ObjectsCreateFile ==
    \E parentId \in IdArgs, name \in ObjectNames, content \in ObjectContents :
        CallObjects(createFileObjects(HeapOf(fs), FsAddr, parentId, name, content))

ObjectsMoveNode ==
    \E nodeId \in IdArgs, newParentId \in IdArgs :
        CallObjects(moveNodeObjects(HeapOf(fs), FsAddr, nodeId, newParentId))

ObjectsRemoveNode ==
    \E path \in ObjectPaths, recursive \in BOOLEAN :
        CallObjects(removeNodeObjects(HeapOf(fs), FsAddr, path, recursive))

ObjectsExecuteCommand ==
    \E commandLine \in ObjectLines :
        CallObjects(executeCommandObjects(HeapOf(fs), FsAddr, commandLine))

ObjectsNext ==
    \/ ObjectsCreateDirectory
    \/ ObjectsCreateFile
    \/ ObjectsMoveNode
    \/ ObjectsRemoveNode
    \/ ObjectsExecuteCommand

SpecObjects == Init /\ [][ObjectsNext]_vars

\* ------------------------------------------------------- names with a slash
\* The names given to mkdir and touch: a word of the command line may hold "/".
SlashNames == {N_a, N_b, N_ab}

NamesCreate ==
    \E w \in {W_mkdir, W_touch}, name \in SlashNames :
        LET result == executeCommand(fs, <<w, name>>)
        IN /\ InBounds(result.newFileSystem)
           /\ fs' = Canonical(result.newFileSystem)

NamesCd ==
    \E commandLine \in {<<W_cd>>, <<W_cd, N_a>>, <<W_cd, N_ab>>} :
        fs' = Canonical(executeCommand(fs, commandLine).newFileSystem)

NamesNext ==
    \/ NamesCreate
    \/ NamesCd

SpecNames == Init /\ [][NamesNext]_vars

\* ======================================================================
\* Properties
\* ======================================================================
NodeIds == DOMAIN fs.nodes
Directories == {id \in NodeIds : fs.nodes[id].isDirectory}
Files == {id \in NodeIds : ~fs.nodes[id].isDirectory}
Elements(seq) == {seq[i] : i \in 1..Len(seq)}
Occurrences(seq, x) == Cardinality({i \in 1..Len(seq) : seq[i] = x})

\* C1: in every reachable snapshot no directory has two children with the
\* same name.
C1_UniqueSiblingNames ==
    \A d \in Directories :
        LET children == fs.nodes[d].children
        IN \A i, j \in 1..Len(children) :
              (i # j /\ IsNode(fs, children[i]) /\ IsNode(fs, children[j]))
                  => fs.nodes[children[i]].name # fs.nodes[children[j]].name

\* A directory below the root holds two children, a directory and a file.
C1_Witness ==
    \E d \in Directories :
        /\ fs.nodes[d].parentId # Null
        /\ Len(fs.nodes[d].children) = 2
        /\ fs.nodes[d].children[1] \in Directories
        /\ fs.nodes[d].children[2] \in Files

\* C2: the blocks with a fileId are exactly the blocks the files list, each
\* carries the id of the file listing it, and no block is listed by two files.
C2_BlockConservation ==
    /\ {b \in DOMAIN fs.blocks : fs.blocks[b].fileId # Null}
          = UNION {Elements(fs.nodes[id].blocks) : id \in Files}
    /\ \A id \in Files : \A b \in Elements(fs.nodes[id].blocks) :
          b \in DOMAIN fs.blocks /\ fs.blocks[b].fileId = id
    /\ \A id1, id2 \in Files :
          id1 # id2 => Elements(fs.nodes[id1].blocks) \cap Elements(fs.nodes[id2].blocks) = {}

\* A file holds the last two blocks while the first two are free again (the
\* file that held them was removed), next to a file without blocks.
C2_Witness ==
    /\ \E id \in Files : fs.nodes[id].blocks = <<2, 3>>
    /\ \E id \in Files : fs.nodes[id].blocks = <<>>
    /\ fs.blocks[0].fileId = Null
    /\ fs.blocks[1].fileId = Null

\* Following parentId from id reaches a node without parent in at most `fuel`
\* steps, every parentId on the way naming a node.
RECURSIVE ReachesRoot(_, _)
ReachesRoot(id, fuel) ==
    IF fs.nodes[id].parentId = Null THEN TRUE
    ELSE /\ fuel > 0
         /\ IsNode(fs, fs.nodes[id].parentId)
         /\ ReachesRoot(fs.nodes[id].parentId, fuel - 1)

\* C3: exactly one node has no parent, it is a directory, and every node
\* reaches it along parentId.
C3_TreeIntegrity ==
    /\ Cardinality({id \in NodeIds : fs.nodes[id].parentId = Null}) = 1
    /\ \A id \in NodeIds : fs.nodes[id].parentId = Null => fs.nodes[id].isDirectory
    /\ \A id \in NodeIds : ReachesRoot(id, Cardinality(NodeIds))

\* A chain of three nodes hangs below the root.
C3_Witness ==
    \E id \in NodeIds :
        LET p == fs.nodes[id].parentId
        IN /\ p # Null
           /\ fs.nodes[p].parentId # Null
           /\ fs.nodes[fs.nodes[p].parentId].parentId # Null

\* C4: children lists and parentId agree: every listed child is a node with
\* that parent, every node but the root is listed once by its parent, and no
\* id is listed by two directories.
C4_ChildrenMatchParents ==
    /\ \A d \in Directories : \A c \in Elements(fs.nodes[d].children) :
          IsNode(fs, c) /\ fs.nodes[c].parentId = d
    /\ \A id \in NodeIds :
          fs.nodes[id].parentId # Null =>
              /\ fs.nodes[id].parentId \in Directories
              /\ Occurrences(fs.nodes[fs.nodes[id].parentId].children, id) = 1
    /\ \A d1, d2 \in Directories :
          d1 # d2 => Elements(fs.nodes[d1].children) \cap Elements(fs.nodes[d2].children) = {}

\* The root holds two children, and the second of them holds a child.
C4_Witness ==
    \E root \in Directories :
        /\ fs.nodes[root].parentId = Null
        /\ Len(fs.nodes[root].children) = 2
        /\ fs.nodes[fs.nodes[root].children[2]].isDirectory
        /\ fs.nodes[fs.nodes[root].children[2]].children # <<>>
\* The start positions of the free runs of k blocks.
FreeRuns(k) ==
    {s \in 0..(fs.totalBlocks - k) : \A i \in 0..(k - 1) : fs.blocks[s + i].fileId = Null}
FreeCount == Cardinality({b \in DOMAIN fs.blocks : fs.blocks[b].fileId = Null})
Least(set) == CHOOSE s \in set : \A t \in set : s <= t
\* The content sizes the allocator is asked for: up to one byte more than
\* the disk holds.
ContentSizes == 0..(TotalBlocks * BlockSize + 1)

\* C5: allocateBlocksContiguous is first-fit at the lowest address: it returns
\* the k blocks from the least start whose run of k blocks is free, and null
\* exactly when there is no such start.
C5_FirstFitLowestAddress ==
    \A contentSize \in ContentSizes :
        LET k == Ceil(contentSize, fs.blockSize)
            got == allocateBlocksContiguous(fs, contentSize)
        IN IF FreeRuns(k) = {}
           THEN got.isNull
           ELSE /\ ~got.isNull
                /\ got.list = [i \in 1..k |-> Least(FreeRuns(k)) + i - 1]

\* A file of less than one block holds block 0 and a file of more than one
\* block holds blocks 1 and 2, which is where first-fit puts the next one.
C5_Witness ==
    /\ \E id \in Files : fs.nodes[id].size < fs.blockSize /\ fs.nodes[id].blocks = <<0>>
    /\ \E id \in Files : fs.nodes[id].size > fs.blockSize /\ fs.nodes[id].blocks = <<1, 2>>
    /\ allocateBlocksContiguous(fs, 1).list = <<3>>
    /\ allocateBlocksContiguous(fs, fs.blockSize + 1).isNull

\* C6: createFile in the root with a new name fails with "Not enough disk
\* space", returning no snapshot, when the content needs k >= 1 blocks and no
\* run of k free blocks exists.
C6_NoRunNoFile ==
    \A name \in DiskNames, content \in DiskContents :
        LET k == Ceil(ByteLength(content), fs.blockSize)
            call == createFile(fs, RootId, name, content)
        IN (/\ ~NameExists(fs, fs.nodes[RootId].children, name)
            /\ k >= 1
            /\ FreeRuns(k) = {})
              => /\ ~call.ok
                 /\ call.err = Msg("Not enough disk space")

\* Two blocks are free but not in a row, and a file of two blocks is refused.
C6_Witness ==
    /\ FreeCount >= 2
    /\ FreeRuns(2) = {}
    /\ \E name \in DiskNames, content \in DiskContents :
          /\ Ceil(ByteLength(content), fs.blockSize) = 2
          /\ ~NameExists(fs, fs.nodes[RootId].children, name)
          /\ ~createFile(fs, RootId, name, content).ok
          /\ createFile(fs, RootId, name, content).err.text = "Not enough disk space"
\* The nodes below node id: those whose parent chain passes through it.
RECURSIVE Below(_, _, _)
Below(id, top, fuel) ==
    /\ fuel > 0
    /\ IsNode(fs, id)
    /\ fs.nodes[id].parentId # Null
    /\ \/ fs.nodes[id].parentId = top
       \/ Below(fs.nodes[id].parentId, top, fuel - 1)
Descendants(top) == {id \in NodeIds : Below(id, top, Cardinality(NodeIds))}

\* C7: recursive removal of a directory x that has a child succeeds: x and
\* all its descendants are gone from nodes, x is gone from its parent's
\* children and every block of a descendant file is free.
C7_RecursiveRemovalSucceeds ==
    \A path \in Paths :
        LET x == getNodeByPath(fs, path)
        IN (/\ x # Null
            /\ fs.nodes[x].parentId # Null
            /\ fs.nodes[x].isDirectory
            /\ Len(fs.nodes[x].children) > 0)
              => LET call == removeNode(fs, path, TRUE)
                 IN /\ call.ok
                    /\ \A id \in Descendants(x) \cup {x} : ~IsNode(call.fs, id)
                    /\ x \notin Elements(call.fs.nodes[fs.nodes[x].parentId].children)
                    /\ \A b \in DOMAIN fs.blocks :
                          fs.blocks[b].fileId \in Descendants(x)
                             => call.fs.blocks[b].fileId = Null

\* Directory a holds a file with blocks, and both removeNode("a", true) and
\* the command `rm -r a` refuse it with "No such file or directory".
C7_Witness ==
    LET x == getNodeByPath(fs, N_a)
    IN /\ x # Null
       /\ fs.nodes[x].isDirectory
       /\ \E id \in Files : fs.nodes[id].parentId = x /\ fs.nodes[id].blocks # <<>>
       /\ removeNode(fs, N_a, TRUE) = Throw("No such file or directory", <<>>)
       /\ executeCommand(fs, <<W_rm, W_r, N_a>>) =
             Result(<<Diag(W_rm, N_a, Msg("No such file or directory"))>>, fs)
\* The argument lists of mkdir and touch: one to three names.
NameLists ==
    {<<n>> : n \in Names}
    \cup {<<n, m>> : n \in Names, m \in Names}
    \cup {<<n, m, o>> : n \in Names, m \in Names, o \in Names}

\* The outcomes of creating the names one after the other in the current
\* directory, each on the snapshot the one before returned; the list ends
\* with the first failure.
RECURSIVE Creations(_, _, _)
Creations(isDir, f, names) ==
    IF names = <<>> THEN <<>>
    ELSE LET step == IF isDir THEN createDirectory(f, f.currentDirectory, Head(names))
                     ELSE createFile(f, f.currentDirectory, Head(names), <<>>)
         IN IF step.ok THEN <<step>> \o Creations(isDir, step.fs, Tail(names))
            ELSE <<step>>
Last(seq) == seq[Len(seq)]
CreateWords == {W_mkdir, W_touch}

\* C8 as stated: when creation first fails at argument ni, the returned
\* snapshot is the one holding the nodes created for n1..n(i-1), and the output
\* is the diagnostic for ni.
C8_PriorSuccessesKept ==
    \A w \in CreateWords, names \in NameLists :
        LET steps == Creations(w = W_mkdir, fs, names)
            result == executeCommand(fs, <<w>> \o names)
        IN ~Last(steps).ok
              => /\ result.output = <<Diag(w, <<>>, Last(steps).err)>>
                 /\ result.newFileSystem =
                       (IF Len(steps) = 1 THEN fs ELSE steps[Len(steps) - 1].fs)

\* C8 (amended): when creation first fails at argument ni, the returned
\* snapshot is the input snapshot (what was created for n1..n(i-1) is
\* dropped, nothing is created for ni..nk) and the output is the one
\* diagnostic `<command>: <message for ni>`; when no creation fails the output
\* is empty and the snapshot is the one the last creation returned.
C8_FailureDropsPriorSuccesses ==
    \A w \in CreateWords, names \in NameLists :
        LET steps == Creations(w = W_mkdir, fs, names)
            result == executeCommand(fs, <<w>> \o names)
        IN IF Last(steps).ok
           THEN result = Result(<<>>, Last(steps).fs)
           ELSE result = Result(<<Diag(w, <<>>, Last(steps).err)>>, fs)

\* Both for mkdir and for touch, a list of names whose first name is created
\* and whose second is refused leaves the snapshot as it was.
C8_Witness ==
    \A w \in CreateWords :
        \E names \in NameLists :
            LET steps == Creations(w = W_mkdir, fs, names)
                result == executeCommand(fs, <<w>> \o names)
            IN /\ Len(steps) = 2
               /\ steps[1].ok
               /\ ~steps[2].ok
               /\ steps[1].fs # fs
               /\ result.newFileSystem = fs
               /\ Len(result.output) = 1
\* The commands executeCommand dispatches to a handler.
HandlerWords == {W_ls, W_cd, W_mkdir, W_touch, W_cat, W_pwd, W_rm}
HandlerLines == {line \in CommandLines : line # <<>> /\ Head(line) \in HandlerWords}
\* The output reports a failure: one of its lines is a diagnostic.
Failed(output) == \E i \in 1..Len(output) : output[i].cmd # <<>>
\* The paths of an rm command line.
RmPaths(line) ==
    IF Len(line) > 1 /\ line[2] \in {W_r, W_rf} THEN Tail(Tail(line)) ELSE Tail(line)

\* C9 as stated: whenever a handler's output carries a diagnostic, the
\* returned snapshot is the input snapshot and the diagnostic is prefixed with
\* the command name.
C9_FailureLeavesSnapshot ==
    \A line \in HandlerLines :
        LET result == executeCommand(fs, line)
        IN Failed(result.output)
              => /\ result.newFileSystem = fs
                 /\ \A i \in 1..Len(result.output) : result.output[i].cmd = Head(line)

\* C9 (amended): whenever the output of ls, cd, mkdir, touch, cat or pwd
\* carries a diagnostic, the returned snapshot is the input snapshot; whenever
\* the output of rm carries diagnostics, the returned snapshot is the input
\* snapshot if every path failed and otherwise differs from it by the
\* removals that succeeded; in all seven, every diagnostic is prefixed with
\* the command name.
C9_FailureLeavesSnapshotExceptRm ==
    \A line \in HandlerLines :
        LET result == executeCommand(fs, line)
        IN Failed(result.output)
              => /\ \A i \in 1..Len(result.output) : result.output[i].cmd = Head(line)
                 /\ Head(line) # W_rm => result.newFileSystem = fs
                 /\ Head(line) = W_rm =>
                       (result.newFileSystem = fs
                           <=> \/ RmPaths(line) = <<>>
                               \/ Len(result.output) = Len(RmPaths(line)))

\* Each of ls, cd, mkdir, touch, cat and rm has a command line that fails in
\* this state, and one rm line fails on one path after removing the other.
C9_Witness ==
    /\ \A w \in HandlerWords \ {W_pwd} :
          \E line \in HandlerLines :
              Head(line) = w /\ Failed(executeCommand(fs, line).output)
    /\ \E line \in HandlerLines :
          /\ Head(line) = W_rm
          /\ Failed(executeCommand(fs, line).output)
          /\ executeCommand(fs, line).newFileSystem # fs
\* The flags and path lists of the rm command lines.
RmFlags == {<<>>, <<W_r>>, <<W_rf>>}
RmPathLists ==
    {<<p>> : p \in Paths} \cup {<<p, q>> : p \in Paths, q \in Paths}

\* C10: `rm [-r|-rf] p1 ... pn` tries every path in order on the snapshot the
\* earlier successful removals produced, also after a failure: the returned
\* snapshot holds every successful removal and the output is one line
\* `rm: <pi>: <message>` per failed path, in order, and empty when none failed.
C10_RmTriesEveryPath ==
    \A flag \in RmFlags, paths \in RmPathLists :
        LET recursive == flag # <<>>
            result == executeCommand(fs, <<W_rm>> \o flag \o paths)
            first == removeNode(fs, paths[1], recursive)
            after1 == IF first.ok THEN first.fs ELSE fs
            line1 == IF first.ok THEN <<>> ELSE <<Diag(W_rm, paths[1], first.err)>>
        IN IF Len(paths) = 1
           THEN result = Result(line1, after1)
           ELSE LET second == removeNode(after1, paths[2], recursive)
                    after2 == IF second.ok THEN second.fs ELSE after1
                    line2 == IF second.ok THEN <<>>
                             ELSE <<Diag(W_rm, paths[2], second.err)>>
                IN result = Result(line1 \o line2, after2)

\* An rm of two paths whose first fails and whose second is removed, and
\* another whose two paths both fail with different messages.
C10_Witness ==
    /\ \E p \in Paths, q \in Paths :
          LET result == executeCommand(fs, <<W_rm, p, q>>)
          IN /\ ~removeNode(fs, p, FALSE).ok
             /\ removeNode(fs, q, FALSE).ok
             /\ result.newFileSystem = removeNode(fs, q, FALSE).fs
             /\ Len(result.output) = 1
             /\ result.output[1].path = p
    /\ \E p \in Paths, q \in Paths :
          LET result == executeCommand(fs, <<W_rm, p, q>>)
          IN /\ Len(result.output) = 2
             /\ result.output[1].path = p
             /\ result.output[2].path = q
             /\ result.output[1].text # result.output[2].text
\* C11: removeNode with recursive = false on a directory that has a child
\* fails with "Directory not empty" and returns no snapshot; the command
\* `rm <path>` reports it and returns the snapshot it was given.
C11_NonEmptyDirectoryRefused ==
    \A path \in Paths :
        LET x == getNodeByPath(fs, path)
        IN (/\ x # Null
            /\ fs.nodes[x].isDirectory
            /\ Len(fs.nodes[x].children) > 0)
              => /\ removeNode(fs, path, FALSE) = Throw("Directory not empty", <<>>)
                 /\ executeCommand(fs, <<W_rm, path>>) =
                       Result(<<Diag(W_rm, path, Msg("Directory not empty"))>>, fs)

\* Directory a below the root holds directory b, which holds a file with
\* blocks; removing a/b and removing a without the flag are both refused.
C11_Witness ==
    LET a == getNodeByPath(fs, N_a)
        b == getNodeByPath(fs, N_ab)
    IN /\ a # Null
       /\ b # Null
       /\ fs.nodes[b].isDirectory
       /\ \E id \in Files : fs.nodes[id].parentId = b /\ fs.nodes[id].blocks # <<>>
       /\ ~removeNode(fs, N_ab, FALSE).ok
       /\ ~removeNode(fs, N_a, FALSE).ok

\* The removals of the root a caller can ask for.
RootRemovals == {<<W_rm, W_slash>>, <<W_rm, W_r, W_slash>>, <<W_rm, W_rf, W_slash>>}
RootRefusals == {"Cannot remove root directory", "Directory not empty"}

\* C12: the root is never removed: the node that was the root at
\* initialization is in nodes with no parent, and every removal that targets
\* it (removeNode("/", ...), `rm /`, `rm -r /`, `rm -rf /`) is refused, with
\* the snapshot unchanged.
C12_RootNeverRemoved ==
    /\ IsNode(fs, RootId)
    /\ fs.nodes[RootId].parentId = Null
    /\ FindRoot(fs) = RootId
    /\ \A recursive \in BOOLEAN :
          /\ ~removeNode(fs, W_slash, recursive).ok
          /\ removeNode(fs, W_slash, recursive).err.text \in RootRefusals
    /\ \A line \in RootRemovals :
          LET result == executeCommand(fs, line)
          IN /\ result.newFileSystem = fs
             /\ Len(result.output) = 1
             /\ result.output[1].cmd = W_rm
             /\ result.output[1].text \in RootRefusals

\* The root holds a directory that holds a file: `rm /` is refused because
\* the root is not empty, `rm -r /` and `rm -rf /` because it is the root.
C12_Witness ==
    /\ \E d \in Directories, id \in Files :
          fs.nodes[d].parentId = RootId /\ fs.nodes[id].parentId = d
    /\ executeCommand(fs, <<W_rm, W_slash>>).output[1].text = "Directory not empty"
    /\ executeCommand(fs, <<W_rm, W_r, W_slash>>).output[1].text = "Cannot remove root directory"
    /\ executeCommand(fs, <<W_rm, W_rf, W_slash>>).output[1].text = "Cannot remove root directory"
\* In snapshot f, node top is met on the way from node id up its parents.
RECURSIVE HasAncestor(_, _, _, _)
HasAncestor(f, id, top, fuel) ==
    /\ fuel > 0
    /\ IsNode(f, id)
    /\ f.nodes[id].parentId # Null
    /\ \/ f.nodes[id].parentId = top
       \/ HasAncestor(f, f.nodes[id].parentId, top, fuel - 1)
OwnAncestor(f, id) == HasAncestor(f, id, id, Cardinality(DOMAIN f.nodes) + 1)

\* C13: moveNode of a directory into itself or into a node below it, at any
\* depth, is refused (no snapshot is returned), and no move that is accepted
\* returns a snapshot in which a node is its own ancestor.
C13_NoMoveBelowItself ==
    /\ \A nodeId \in Directories :
          \A newParentId \in Descendants(nodeId) \cup {nodeId} :
              LET call == moveNode(fs, nodeId, newParentId)
              IN /\ ~call.ok
                 /\ (nodeId # RootId /\ fs.nodes[newParentId].isDirectory)
                       => call.err.text = "Cannot move a directory into its own subdirectory"
    /\ \A nodeId \in IdArgs, newParentId \in IdArgs :
          LET call == moveNode(fs, nodeId, newParentId)
          IN call.ok => \A id \in DOMAIN call.fs.nodes : ~OwnAncestor(call.fs, id)

\* Directory a holds directory b, which holds a directory: moving a into
\* itself, into b and into the directory below b are all refused, while
\* moving the lowest directory up to the root is accepted.
C13_Witness ==
    \E a \in Directories, b \in Directories, c \in Directories :
        /\ fs.nodes[a].parentId = RootId
        /\ fs.nodes[b].parentId = a
        /\ fs.nodes[c].parentId = b
        /\ ~moveNode(fs, a, a).ok
        /\ ~moveNode(fs, a, b).ok
        /\ ~moveNode(fs, a, c).ok
        /\ moveNode(fs, c, RootId).ok
\* C14: a successful moveNode(node, newParent) changes three node records and
\* nothing else: node's parentId becomes newParent, node's id leaves the old
\* parent's children (the others keep their order), node's id becomes the last
\* of newParent's children; every other record and field, the blocks, the
\* current directory and the current user are as before.
C14_MoveChangesThreeRecords ==
    \A nodeId \in IdArgs, newParentId \in IdArgs :
        LET call == moveNode(fs, nodeId, newParentId)
            oldParentId == fs.nodes[nodeId].parentId
            after == call.fs.nodes
        IN call.ok
              => /\ Cardinality({nodeId, oldParentId, newParentId}) = 3
                 /\ DOMAIN after = DOMAIN fs.nodes
                 /\ after[nodeId] = [fs.nodes[nodeId] EXCEPT !.parentId = newParentId]
                 /\ after[oldParentId] =
                       [fs.nodes[oldParentId] EXCEPT
                           !.children = SelectSeq(@, LAMBDA id : id # nodeId)]
                 /\ nodeId \notin Elements(after[oldParentId].children)
                 /\ after[newParentId] =
                       [fs.nodes[newParentId] EXCEPT !.children = Append(@, nodeId)]
                 /\ \A id \in DOMAIN after \ {nodeId, oldParentId, newParentId} :
                       after[id] = fs.nodes[id]
                 /\ [call.fs EXCEPT !.nodes = fs.nodes] = fs

\* The root holds a file with blocks and then a directory that has a child;
\* the file is moved into the directory and becomes its last child.
C14_Witness ==
    \E n \in Files, d \in Directories :
        /\ fs.nodes[RootId].children = <<n, d>>
        /\ fs.nodes[n].blocks # <<>>
        /\ Len(fs.nodes[d].children) = 1
        /\ moveNode(fs, n, d).ok
        /\ moveNode(fs, n, d).fs.nodes[d].children = Append(fs.nodes[d].children, n)
        /\ moveNode(fs, n, d).fs.nodes[RootId].children = <<d>>
PermissionKinds == {"read", "write", "execute"}

\* The current user of snapshot f is granted `kind` on node id: the node and
\* the user exist, and the user is an admin or the node's own table has an
\* entry for the user with the flag set.
Granted(f, id, kind) ==
    /\ id \in DOMAIN f.nodes
    /\ f.currentUser \in DOMAIN f.users
    /\ \/ f.users[f.currentUser].isAdmin
       \/ /\ f.currentUser \in DOMAIN f.nodes[id].permissions
          /\ f.nodes[id].permissions[f.currentUser][kind]

\* C15: moveNode of a node below the root into a directory succeeds only if
\* the current user may write both the node's parent and the destination;
\* when either is missing it fails with "Permission denied" and returns no
\* snapshot, whatever the user is granted on the moved node.
C15_MoveNeedsWriteOnBothParents ==
    \A nodeId \in NodeIds \ {RootId}, newParentId \in Directories :
        LET call == moveNode(fs, nodeId, newParentId)
            both == /\ Granted(fs, fs.nodes[nodeId].parentId, "write")
                    /\ Granted(fs, newParentId, "write")
        IN /\ call.ok => both
           /\ ~both => call = Throw("Permission denied", <<>>)

\* The guest may write the moved node and its parent but not the destination
\* of one refused move, may write the moved node and the destination but not
\* the parent of another, and makes a third move with no grant on the node.
C15_Witness ==
    /\ fs.currentUser = GuestId
    /\ \E nodeId \in NodeIds \ {RootId}, newParentId \in Directories :
          /\ Granted(fs, nodeId, "write")
          /\ Granted(fs, fs.nodes[nodeId].parentId, "write")
          /\ ~Granted(fs, newParentId, "write")
          /\ moveNode(fs, nodeId, newParentId).err.text = "Permission denied"
    /\ \E nodeId \in NodeIds \ {RootId}, newParentId \in Directories :
          /\ Granted(fs, nodeId, "write")
          /\ ~Granted(fs, fs.nodes[nodeId].parentId, "write")
          /\ Granted(fs, newParentId, "write")
          /\ moveNode(fs, nodeId, newParentId).err.text = "Permission denied"
    /\ \E nodeId \in NodeIds \ {RootId}, newParentId \in Directories :
          /\ ~Granted(fs, nodeId, "write")
          /\ moveNode(fs, nodeId, newParentId).ok
\* Snapshot f with the guest's entry in node id's permission table set as
\* opt says (removed when opt has none).
SetEntry(f, id, opt) ==
    LET table == f.nodes[id].permissions
        others == [u \in DOMAIN table \ {GuestId} |-> table[u]]
    IN [f EXCEPT !.nodes[id].permissions =
           IF opt.has
           THEN others @@ (GuestId :> [read |-> opt.read, write |-> opt.write,
                                       execute |-> opt.execute])
           ELSE others]
Ancestors(id) == {top \in NodeIds : HasAncestor(fs, id, top, Cardinality(NodeIds))}

\* C16: hasPermission(snapshot, nodeId, kind) is true exactly when the node
\* exists, the current user exists, and the user is an admin or the node's own
\* table has an entry for the user with the kind's flag true; what the tables
\* of the node's ancestors say changes nothing; for a missing node or a
\* missing user it is false, also when the user is an admin.
C16_PermissionIsTheNodesOwn ==
    \A kind \in PermissionKinds :
        /\ \A nodeId \in IdArgs :
              hasPermission(fs, nodeId, kind) = Granted(fs, nodeId, kind)
        /\ \A nodeId \in NodeIds, opt \in GrantOptions :
              \A top \in Ancestors(nodeId) :
                  hasPermission(SetEntry(fs, top, opt), nodeId, kind)
                     = hasPermission(fs, nodeId, kind)
        /\ \A nodeId \in IdArgs \ NodeIds, user \in DOMAIN fs.users :
              ~hasPermission([fs EXCEPT !.currentUser = user], nodeId, kind)
        /\ \A nodeId \in NodeIds :
              ~hasPermission([fs EXCEPT !.currentUser = NobodyId], nodeId, kind)

\* The guest may write a directory and read but not execute its parent, and
\* has no entry in the table of a directory whose parent it may write.
C16_Witness ==
    /\ fs.currentUser = GuestId
    /\ \E nodeId \in NodeIds \ {RootId} :
          /\ hasPermission(fs, nodeId, "write")
          /\ ~hasPermission(fs, nodeId, "read")
          /\ hasPermission(fs, fs.nodes[nodeId].parentId, "read")
          /\ ~hasPermission(fs, fs.nodes[nodeId].parentId, "execute")
          /\ ~hasPermission(fs, fs.nodes[nodeId].parentId, "write")
    /\ \E nodeId \in NodeIds \ {RootId} :
          /\ GuestId \notin DOMAIN fs.nodes[nodeId].permissions
          /\ hasPermission(fs, fs.nodes[nodeId].parentId, "write")
          /\ ~hasPermission(fs, nodeId, "write")
\* The directory a cd command line asks for: the root, the parent of the
\* current directory, or the node at the path.
CdTarget(line) ==
    IF Len(line) = 1 THEN FindRoot(fs)
    ELSE IF line[2] = W_dotdot
         THEN (IF IsNode(fs, fs.currentDirectory)
               THEN fs.nodes[fs.currentDirectory].parentId ELSE Null)
         ELSE getNodeByPath(fs, line[2])

\* C17: cd never moves a user into a directory the user may not execute: in
\* each of its forms (no argument, `..`, a path), if the command changes the
\* current directory then the current user may execute the new one, and if
\* the directory asked for is another one than the current and the user may
\* not execute it, the output is `cd: Permission denied` and the snapshot is
\* unchanged.
C17_CdNeedsExecute ==
    \A line \in CdLines :
        LET result == executeCommand(fs, line)
            target == CdTarget(line)
        IN /\ result.newFileSystem.currentDirectory # fs.currentDirectory
                 => Granted(fs, result.newFileSystem.currentDirectory, "execute")
           /\ (/\ target # Null
               /\ fs.nodes[target].isDirectory
               /\ target # fs.currentDirectory
               /\ ~Granted(fs, target, "execute"))
                 => result = Result(<<Diag(W_cd, <<>>, Msg("Permission denied"))>>, fs)

\* The guest is in a directory below the root and may not execute the root:
\* `cd` moves the guest to the root and prints nothing, while `cd ..` from a
\* child of the root is refused.
C17_Witness ==
    /\ fs.currentUser = GuestId
    /\ IsNode(fs, fs.currentDirectory)
    /\ fs.nodes[fs.currentDirectory].parentId = RootId
    /\ ~hasPermission(fs, RootId, "execute")
    /\ executeCommand(fs, <<W_cd>>) = Result(<<>>, [fs EXCEPT !.currentDirectory = RootId])
    /\ executeCommand(fs, <<W_cd, W_dotdot>>) =
          Result(<<Diag(W_cd, <<>>, Msg("Permission denied"))>>, fs)
\* C18: for every node n of the snapshot, whatever names mkdir and touch were
\* given, getNodeByPath(fs, getNodePath(fs, n.id)) is n.
C18_PathRoundTrip ==
    \A id \in NodeIds :
        getNodeByPath(fs, getNodePath(fs, id)) = id

\* The root holds a directory created by `mkdir a/b`: its path is /a/b, which
\* names no node, or names the b inside a.
C18_Witness ==
    \E id \in Directories :
        /\ fs.nodes[id].parentId = RootId
        /\ fs.nodes[id].name = N_ab
        /\ getNodePath(fs, id) = <<"/">> \o N_ab
        /\ getNodeByPath(fs, getNodePath(fs, id)) # id
UsedCount(f) == Cardinality({b \in DOMAIN f.blocks : f.blocks[b].fileId # Null})

\* C19: when a file with k blocks from s on is removed by removeNode and
\* createFile is called on the returned snapshot with the same parent, name
\* and content, createFile succeeds, the new file has a run of k blocks from
\* some s' <= s on, and as many blocks are in use as before the removal.
C19_RemoveThenCreateReusesSpace ==
    \A id \in Files :
        LET file == fs.nodes[id]
            k == Len(file.blocks)
            removed == removeNode(fs, getNodePath(fs, id), FALSE)
            created == createFile(removed.fs, file.parentId, file.name, file.content)
            new == created.fs.nodes[FindChild(created.fs,
                                              created.fs.nodes[file.parentId].children,
                                              file.name)]
        IN /\ removed.ok
           /\ created.ok
           /\ Len(new.blocks) = k
           /\ \A i \in 1..k : new.blocks[i] = new.blocks[1] + i - 1
           /\ k > 0 => new.blocks[1] <= file.blocks[1]
           /\ new.content = file.content
           /\ UsedCount(created.fs) = UsedCount(fs)

\* A file of two blocks starts at block 1, block 0 is free and block 3 is in
\* use: removed and created again, the file starts at block 0.
C19_Witness ==
    \E id \in Files :
        /\ fs.nodes[id].blocks = <<1, 2>>
        /\ fs.blocks[0].fileId = Null
        /\ fs.blocks[3].fileId # Null
        /\ LET removed == removeNode(fs, getNodePath(fs, id), FALSE)
               created == createFile(removed.fs, RootId, fs.nodes[id].name,
                                     fs.nodes[id].content)
           IN /\ created.ok
              /\ created.fs.blocks[0].fileId # Null
              /\ created.fs.blocks[1].fileId # Null
              /\ created.fs.blocks[2].fileId = Null
\* C20: every file's blocks are as many as its content's bytes need (the
\* least n with n * blockSize >= byte length), they are one run of
\* consecutive ascending indices within 0..totalBlocks-1, and startBlock is
\* the first of them when there is one.
C20_FileBlocksFitContent ==
    \A id \in Files :
        LET file == fs.nodes[id]
            n == Len(file.blocks)
            bytes == ByteLength(file.content)
        IN /\ n * fs.blockSize >= bytes
           /\ n > 0 => (n - 1) * fs.blockSize < bytes
           /\ file.size = bytes
           /\ \A i \in 1..n : file.blocks[i] \in 0..(fs.totalBlocks - 1)
           /\ \A i \in 1..n : file.blocks[i] = file.blocks[1] + i - 1
           /\ n > 0 => file.startBlock = file.blocks[1]

\* The disk holds a file of three bytes in two blocks that do not start at
\* block 0 and a file of one byte in the last block.
C20_Witness ==
    /\ \E id \in Files :
          /\ Len(fs.nodes[id].content) = 3
          /\ fs.nodes[id].startBlock = 1
          /\ fs.nodes[id].blocks = <<1, 2>>
    /\ \E id \in Files :
          /\ Len(fs.nodes[id].content) = 1
          /\ fs.nodes[id].startBlock = 3
          /\ fs.nodes[id].blocks = <<3>>
\* C21: mkdir and touch create in the current directory, whatever the
\* argument looks like: a successful `mkdir a` or `touch a` adds one node,
\* named a as it was typed, with parentId the current directory, last in the
\* current directory's children; no other node changes.
C21_CreateInCurrentDirectory ==
    \A w \in CreateWords, name \in SlashNames :
        LET result == executeCommand(fs, <<w, name>>)
            after == result.newFileSystem
            added == DOMAIN after.nodes \ NodeIds
            cwd == fs.currentDirectory
        IN result.output = <<>>
              => /\ Cardinality(added) = 1
                 /\ DOMAIN after.nodes = NodeIds \cup added
                 /\ \A new \in added :
                       /\ after.nodes[new].name = name
                       /\ after.nodes[new].parentId = cwd
                       /\ after.nodes[new].isDirectory = (w = W_mkdir)
                       /\ after.nodes[cwd] =
                             [fs.nodes[cwd] EXCEPT !.children = Append(@, new)]
                 /\ \A id \in NodeIds \ {cwd} : after.nodes[id] = fs.nodes[id]
                 /\ after.currentDirectory = cwd

\* The current directory is a, below the root, and holds one child; `mkdir
\* a/b` and `touch a/b` each add a node named a/b as its second child.
C21_Witness ==
    /\ fs.currentDirectory # RootId
    /\ fs.currentDirectory = getNodeByPath(fs, N_a)
    /\ Len(fs.nodes[fs.currentDirectory].children) = 1
    /\ \A w \in CreateWords :
          LET after == executeCommand(fs, <<w, N_ab>>).newFileSystem
              cwd == fs.currentDirectory
          IN /\ executeCommand(fs, <<w, N_ab>>).output = <<>>
             /\ Len(after.nodes[cwd].children) = 2
             /\ after.nodes[after.nodes[cwd].children[2]].name = N_ab
             /\ after.nodes[RootId] = fs.nodes[RootId]
\* The names and contents given to createDirectory and createFile by a user.
NewNames == {N_a, N_b, N_c}
NewContents == {<<>>} \cup Contents

C23_CreateNeedsWriteOnParent ==
    /\ \A parentId \in IdArgs, name \in NewNames :
          LET may == Granted(fs, parentId, "write")
              dir == createDirectory(fs, parentId, name)
          IN /\ dir.ok => may
             /\ ~may => dir = Throw("Permission denied", <<>>)
             /\ \A content \in NewContents :
                   LET file == createFile(fs, parentId, name, content)
                   IN /\ file.ok => may
                      /\ ~may => file = Throw("Permission denied", <<>>)
    /\ \A w \in CreateWords, name \in NewNames :
          LET result == executeCommand(fs, <<w>> \o <<name>>)
          IN /\ result.output = <<>> => Granted(fs, fs.currentDirectory, "write")
             /\ ~Granted(fs, fs.currentDirectory, "write")
                   => result = Result(<<Diag(w, <<>>, Msg("Permission denied"))>>, fs)

\* The guest is in a directory the guest may read but not write, where mkdir
\* and touch are refused, and may write another directory, where both
\* createDirectory and createFile succeed.
C23_Witness ==
    /\ fs.currentUser = GuestId
    /\ Granted(fs, fs.currentDirectory, "read")
    /\ ~Granted(fs, fs.currentDirectory, "write")
    /\ executeCommand(fs, <<W_mkdir, N_c>>).output[1].text = "Permission denied"
    /\ executeCommand(fs, <<W_touch, N_c>>).output[1].text = "Permission denied"
    /\ \E parentId \in Directories :
          /\ createDirectory(fs, parentId, N_c).ok
          /\ createFile(fs, parentId, N_c, <<>>).ok
\* The paths given to removeNode by a user.
UserPaths == {N_a, N_b, N_c, N_ab, W_slash}

\* C24: removeNode succeeds only if the current user may write the node the
\* path names; without that it fails with "Permission denied" and returns no
\* snapshot, whatever the user is granted on the node's parent; and a user
\* who may write a file or an empty directory removes it, whatever the
\* parent's table says.
C24_RemoveNeedsWriteOnNode ==
    \A path \in UserPaths, recursive \in BOOLEAN :
        LET x == getNodeByPath(fs, path)
            call == removeNode(fs, path, recursive)
        IN x # Null
              => /\ call.ok => Granted(fs, x, "write")
                 /\ ~Granted(fs, x, "write") => call = Throw("Permission denied", <<>>)
                 /\ (/\ Granted(fs, x, "write")
                     /\ x # RootId
                     /\ fs.nodes[x].children = <<>>)
                       => /\ call.ok
                          /\ ~IsNode(call.fs, x)

\* The guest may write an empty directory and has no entry in its parent's
\* table, and removes it; the guest may write another directory's parent but
\* not the directory, and is refused.
C24_Witness ==
    /\ fs.currentUser = GuestId
    /\ \E path \in UserPaths :
          LET x == getNodeByPath(fs, path)
          IN /\ x # Null
             /\ x # RootId
             /\ Granted(fs, x, "write")
             /\ GuestId \notin DOMAIN fs.nodes[fs.nodes[x].parentId].permissions
             /\ removeNode(fs, path, FALSE).ok
    /\ \E path \in UserPaths :
          LET x == getNodeByPath(fs, path)
          IN /\ x # Null
             /\ x # RootId
             /\ ~Granted(fs, x, "write")
             /\ Granted(fs, fs.nodes[x].parentId, "write")
             /\ fs.nodes[x].children = <<>>
             /\ removeNode(fs, path, FALSE).err.text = "Permission denied"
\* C25: ls, cat, pwd and every unknown command name, the empty one included,
\* return the snapshot they were given, an unknown name with the output
\* `Command not found: <name>`; cd changes at most currentDirectory; so only
\* mkdir, touch and rm change nodes or blocks.
C25_OnlyMkdirTouchRmChangeNodes ==
    \A line \in CommandLines :
        LET command == IF line = <<>> THEN <<>> ELSE Head(line)
            result == executeCommand(fs, line)
        IN /\ command \in {W_ls, W_cat, W_pwd} => result.newFileSystem = fs
           /\ command \notin HandlerWords
                 => result = Result(<<[cmd |-> <<>>, path |-> command,
                                       text |-> "Command not found", name |-> <<>>]>>, fs)
           /\ command = W_cd
                 => [result.newFileSystem EXCEPT !.currentDirectory = fs.currentDirectory] = fs
           /\ (result.newFileSystem.nodes # fs.nodes \/ result.newFileSystem.blocks # fs.blocks)
                 => command \in {W_mkdir, W_touch, W_rm}

\* The current directory is below the root and holds a file with content:
\* `ls a` lists a directory, `cat` prints the file, `cd` goes to the root,
\* and the word a is no command.
C25_Witness ==
    /\ fs.currentDirectory # RootId
    /\ \E id \in Files : fs.nodes[id].parentId = fs.currentDirectory /\ fs.nodes[id].content # <<>>
    /\ \E p \in Paths :
          /\ executeCommand(fs, <<W_cat, p>>).output # <<>>
          /\ ~Failed(executeCommand(fs, <<W_cat, p>>).output)
    /\ ~Failed(executeCommand(fs, <<W_ls, N_a>>).output)
    /\ executeCommand(fs, <<W_cd>>).newFileSystem.currentDirectory # fs.currentDirectory
    /\ executeCommand(fs, <<N_a>>).output[1].text = "Command not found"
\* The objects of the caller's snapshot after a call are what they were.
Untouched(call) ==
    /\ \A a \in DOMAIN HeapOf(fs) : a \in DOMAIN call.h /\ call.h[a] = HeapOf(fs)[a]
    /\ Deref(call.h, FsAddr) = fs

\* C26: no operation changes an object of the snapshot it was given: after
\* createDirectory, createFile, moveNode, removeNode or executeCommand,
\* whether it returned or threw, every object that the caller's snapshot is
\* made of (the FileSystem object, the nodes map, the blocks array, every
\* node record with its children list, every block) is what it was, so the
\* snapshot the caller holds still reads as before.
C26_InputSnapshotUntouched ==
    /\ \A parentId \in IdArgs, name \in ObjectNames :
          Untouched(createDirectoryObjects(HeapOf(fs), FsAddr, parentId, name))
    /\ \A parentId \in IdArgs, name \in ObjectNames, content \in ObjectContents :
          Untouched(createFileObjects(HeapOf(fs), FsAddr, parentId, name, content))
    /\ \A nodeId \in IdArgs, newParentId \in IdArgs :
          Untouched(moveNodeObjects(HeapOf(fs), FsAddr, nodeId, newParentId))
    /\ \A path \in ObjectPaths, recursive \in BOOLEAN :
          Untouched(removeNodeObjects(HeapOf(fs), FsAddr, path, recursive))
    /\ \A commandLine \in ObjectLines :
          Untouched(executeCommandObjects(HeapOf(fs), FsAddr, commandLine))

\* Each of the operations can return a snapshot that differs from the one it
\* is given: a file can be created in a directory other than the root, a node
\* moved, a file with blocks removed, and a command builds a new object.
C26_Witness ==
    /\ \E parentId \in IdArgs \ {RootId}, name \in ObjectNames, content \in ObjectContents :
          createFileObjects(HeapOf(fs), FsAddr, parentId, name, content).ok
    /\ \E nodeId \in IdArgs, newParentId \in IdArgs :
          moveNodeObjects(HeapOf(fs), FsAddr, nodeId, newParentId).ok
    /\ \E path \in ObjectPaths :
          LET call == removeNodeObjects(HeapOf(fs), FsAddr, path, FALSE)
          IN call.ok /\ Deref(call.h, call.at).blocks # fs.blocks
    /\ \E commandLine \in ObjectLines :
          executeCommandObjects(HeapOf(fs), FsAddr, commandLine).at # FsAddr

\* The objects denote what the functions compute.
ObjectsAgree ==
    /\ Deref(HeapOf(fs), FsAddr) = fs
    /\ \A parentId \in IdArgs, name \in ObjectNames :
          LET o == createDirectoryObjects(HeapOf(fs), FsAddr, parentId, name)
              v == createDirectory(fs, parentId, name)
          IN o.ok = v.ok /\ (o.ok => Deref(o.h, o.at) = v.fs)
    /\ \A parentId \in IdArgs, name \in ObjectNames, content \in ObjectContents :
          LET o == createFileObjects(HeapOf(fs), FsAddr, parentId, name, content)
              v == createFile(fs, parentId, name, content)
          IN o.ok = v.ok /\ (o.ok => Deref(o.h, o.at) = v.fs)
    /\ \A nodeId \in IdArgs, newParentId \in IdArgs :
          LET o == moveNodeObjects(HeapOf(fs), FsAddr, nodeId, newParentId)
              v == moveNode(fs, nodeId, newParentId)
          IN o.ok = v.ok /\ (o.ok => Deref(o.h, o.at) = v.fs)
    /\ \A path \in ObjectPaths, recursive \in BOOLEAN :
          LET o == removeNodeObjects(HeapOf(fs), FsAddr, path, recursive)
              v == removeNode(fs, path, recursive)
          IN o.ok = v.ok /\ (o.ok => Deref(o.h, o.at) = v.fs)
    /\ \A commandLine \in ObjectLines :
          LET o == executeCommandObjects(HeapOf(fs), FsAddr, commandLine)
          IN Deref(o.h, o.at) = executeCommand(fs, commandLine).newFileSystem
\* The removal of the first child of directory `node` in a recursive removal:
\* removeNode on the snapshot the directory was taken out of.
FirstChildRemoval(f, path, node) ==
    removeNode(Detach(f, node), path \o <<"/">> \o f.nodes[node.children[1]].name, TRUE)

\* C27: when, in a recursive removeNode of a directory, the removal of a
\* child fails, the call fails with the child's error and returns no
\* snapshot; `rm -r` of that path then reports the error and returns the
\* snapshot it was given, in which no node is removed and no block freed.
C27_ChildFailurePropagates ==
    \A path \in UserPaths :
        LET x == getNodeByPath(fs, path)
            call == removeNode(fs, path, TRUE)
            result == executeCommand(fs, <<W_rm, W_r, path>>)
        IN (/\ x # Null
            /\ x # RootId
            /\ Granted(fs, x, "write")
            /\ fs.nodes[x].children # <<>>
            /\ ~FirstChildRemoval(fs, path, fs.nodes[x]).ok)
              => /\ ~call.ok
                 /\ call.err = FirstChildRemoval(fs, path, fs.nodes[x]).err
                 /\ result.newFileSystem = fs
                 /\ result.output = <<Diag(W_rm, path, call.err)>>

\* The guest may write a directory and not its child, and asks for the
\* recursive removal of the directory: the removal of the child fails.
C27_Witness ==
    /\ fs.currentUser = GuestId
    /\ \E path \in UserPaths :
          LET x == getNodeByPath(fs, path)
          IN /\ x # Null
             /\ x # RootId
             /\ Granted(fs, x, "write")
             /\ fs.nodes[x].children # <<>>
             /\ ~Granted(fs, fs.nodes[x].children[1], "write")
             /\ ~FirstChildRemoval(fs, path, fs.nodes[x]).ok
             /\ ~removeNode(fs, path, TRUE).ok
\* C28: a successful removal of a file resets the blocks that the file's
\* allocation lists, and only those, to {fileId: null, nextBlock: null,
\* content: ''}; every other block is the block it was, and the blocks array
\* still has totalBlocks elements with block i at index i.
C28_RemovalResetsOnlyTheFilesBlocks ==
    \A path \in DiskNames :
        LET x == getNodeByPath(fs, path)
            call == removeNode(fs, path, FALSE)
        IN (x # Null /\ ~fs.nodes[x].isDirectory /\ call.ok)
              => /\ DOMAIN call.fs.blocks = 0..(fs.totalBlocks - 1)
                 /\ \A b \in DOMAIN call.fs.blocks :
                       /\ call.fs.blocks[b].id = b
                       /\ call.fs.blocks[b] =
                             IF b \in Elements(fs.nodes[x].blocks)
                             THEN [id |-> b, fileId |-> Null, nextBlock |-> Null,
                                   content |-> <<>>]
                             ELSE fs.blocks[b]

\* A file of two blocks is removed while another file holds blocks.
C28_Witness ==
    \E path \in DiskNames :
        LET x == getNodeByPath(fs, path)
        IN /\ x # Null
           /\ Len(fs.nodes[x].blocks) = 2
           /\ removeNode(fs, path, FALSE).ok
           /\ \E b \in DOMAIN fs.blocks : fs.blocks[b].fileId \notin {Null, x}
           /\ \E b \in DOMAIN fs.blocks :
                 /\ fs.blocks[b].fileId = x
                 /\ removeNode(fs, path, FALSE).fs.blocks[b].fileId = Null
\* new TextEncoder().encode(content): the bytes of the content, two for a
\* wide character.
RECURSIVE Encode(_)
Encode(content) ==
    IF content = <<>> THEN <<>>
    ELSE (IF Head(content) \in WideChars
          THEN <<<<Head(content), 1>>, <<Head(content), 2>>>>
          ELSE <<<<Head(content), 1>>>>) \o Encode(Tail(content))

\* Bytes from..to-1 of a byte sequence.
ByteRange(bytes, from, to) ==
    SubSeq(bytes, from + 1, IF to < Len(bytes) THEN to ELSE Len(bytes))

\* C29: the block at position i of a file's allocation stores bytes
\* [i*blockSize, (i+1)*blockSize) of the file's content: no block stores more
\* than blockSize bytes and only the last may store fewer.
C29_BlockHoldsItsByteRange ==
    \A x \in Files :
        \A i \in 1..Len(fs.nodes[x].blocks) :
            Encode(fs.blocks[fs.nodes[x].blocks[i]].content)
                = ByteRange(Encode(fs.nodes[x].content),
                            (i - 1) * fs.blockSize, i * fs.blockSize)

\* A file with a wide character in its content has a block that stores more
\* than blockSize bytes.
C29_Witness ==
    \E x \in Files :
        /\ \E k \in 1..Len(fs.nodes[x].content) : fs.nodes[x].content[k] \in WideChars
        /\ \E i \in 1..Len(fs.nodes[x].blocks) :
              ByteLength(fs.blocks[fs.nodes[x].blocks[i]].content) > fs.blockSize
\* C30: a file of empty content takes no block: createFile with '' in a
\* directory that has no child of that name, and so `touch`, succeeds
\* whatever the blocks hold, on a full disk too; the new file's allocation
\* lists no block and every block is as it was.
C30_EmptyFileTakesNoBlock ==
    \A name \in NewNames :
        LET call == createFile(fs, RootId, name, <<>>)
            result == executeCommand(fs, <<W_touch, name>>)
        IN ~NameExists(fs, fs.nodes[RootId].children, name)
              => /\ call.ok
                 /\ call.fs.nodes[uuidv4(fs)].name = name
                 /\ call.fs.nodes[uuidv4(fs)].blocks = <<>>
                 /\ call.fs.nodes[uuidv4(fs)].startBlock = Null
                 /\ call.fs.nodes[uuidv4(fs)].size = 0
                 /\ call.fs.blocks = fs.blocks
                 /\ result.output = <<>>
                 /\ result.newFileSystem = call.fs

\* Every block of the disk is occupied, and an empty file is created.
C30_Witness ==
    /\ \A b \in DOMAIN fs.blocks : fs.blocks[b].fileId # Null
    /\ \E name \in NewNames :
          /\ ~NameExists(fs, fs.nodes[RootId].children, name)
          /\ createFile(fs, RootId, name, <<>>).ok
\* C31: in every snapshot that commands reach, currentDirectory is the id of
\* a node that is a directory, pwd prints a path that starts with "/", and
\* mkdir and touch of a new name in the current directory are not refused.
C31_CurrentDirectoryExists ==
    /\ IsNode(fs, fs.currentDirectory)
    /\ fs.nodes[fs.currentDirectory].isDirectory
    /\ LET output == executeCommand(fs, <<W_pwd>>).output
       IN Len(output) = 1 /\ output[1].path # <<>> /\ Head(output[1].path) = "/"
    /\ \A w \in {W_mkdir, W_touch}, name \in NewNames :
          ~NameExists(fs, fs.nodes[fs.currentDirectory].children, name)
             => executeCommand(fs, <<w, name>>).output = <<>>

\* The directory the user is in has been removed: currentDirectory names no
\* node, pwd prints nothing and mkdir is refused.
C31_Witness ==
    /\ ~IsNode(fs, fs.currentDirectory)
    /\ executeCommand(fs, <<W_pwd>>).output = <<>>
    /\ executeCommand(fs, <<W_mkdir, N_a>>).output # <<>>
    /\ executeCommand(fs, <<W_mkdir, N_a>>).newFileSystem = fs
\* C32: when `mkdir n` succeeds in the current directory, whichever directory
\* that is, `rm n` right after it succeeds and removes the directory just
\* made: the snapshot is again the one before the mkdir.
C32_MkdirThenRmRestores ==
    \A name \in NewNames :
        LET made == executeCommand(fs, <<W_mkdir, name>>)
            removed == executeCommand(made.newFileSystem, <<W_rm, name>>)
        IN made.output = <<>>
              => /\ removed.output = <<>>
                 /\ removed.newFileSystem = fs

\* In a directory other than the root `mkdir n` succeeds, and `rm n` then
\* leaves the new directory where it is: it finds no node of that name in the
\* root, or removes the root's child of that name.
C32_Witness ==
    /\ IsNode(fs, fs.currentDirectory)
    /\ fs.currentDirectory # RootId
    /\ \E name \in NewNames :
          LET made == executeCommand(fs, <<W_mkdir, name>>)
              removed == executeCommand(made.newFileSystem, <<W_rm, name>>)
          IN /\ made.output = <<>>
             /\ IsNode(removed.newFileSystem, uuidv4(fs))
             /\ removed.newFileSystem.nodes[uuidv4(fs)].name = name
             /\ removed.newFileSystem.nodes[uuidv4(fs)].parentId = fs.currentDirectory
    /\ \E name \in NewNames :
          LET made == executeCommand(fs, <<W_mkdir, name>>)
              removed == executeCommand(made.newFileSystem, <<W_rm, name>>)
          IN /\ made.output = <<>>
             /\ removed.output = <<>>
             /\ FindChild(fs, fs.nodes[RootId].children, name) # Null
             /\ ~IsNode(removed.newFileSystem, FindChild(fs, fs.nodes[RootId].children, name))
\* A createFile call that passes the checks made before the allocation.
PassesChecks(f, parentId, name) ==
    /\ hasPermission(f, parentId, "write")
    /\ IsNode(f, parentId)
    /\ f.nodes[parentId].isDirectory
    /\ ~NameExists(f, f.nodes[parentId].children, name)

\* C33: under the 'linked' or 'indexed' strategy no createFile returns a
\* snapshot, whatever the content (the empty content too) and whatever the
\* blocks hold: a call that passes the checks made before the allocation
\* fails with "Not enough disk space", and `touch` reports that and returns
\* the snapshot it was given; no snapshot holds a file.
C33_OtherStrategiesCreateNoFile ==
    fs.allocationStrategy # "contiguous"
       => /\ Files = {}
          /\ \A b \in DOMAIN fs.blocks : fs.blocks[b] = FreeBlock(b)
          /\ \A parentId \in IdArgs, name \in NewNames, content \in StrategyContents :
                LET call == createFile(fs, parentId, name, content)
                IN /\ ~call.ok
                   /\ PassesChecks(fs, parentId, name)
                         => call = Throw("Not enough disk space", <<>>)
          /\ \A name \in NewNames :
                LET result == executeCommand(fs, <<W_touch, name>>)
                IN /\ result.newFileSystem = fs
                   /\ result.output # <<>>
                   /\ PassesChecks(fs, fs.currentDirectory, name)
                         => result.output =
                               <<Diag(W_touch, <<>>, Msg("Not enough disk space"))>>

\* Under the linked strategy, in a directory that the user made and entered,
\* a createFile with empty content passes the checks and is refused though
\* every block is free.
C33_Witness ==
    /\ fs.allocationStrategy = "linked"
    /\ fs.currentDirectory # RootId
    /\ PassesChecks(fs, fs.currentDirectory, N_b)
    /\ \A b \in DOMAIN fs.blocks : fs.blocks[b].fileId = Null
    /\ createFile(fs, fs.currentDirectory, N_b, <<>>) = Throw("Not enough disk space", <<>>)
    /\ executeCommand(fs, <<W_touch, N_b>>).newFileSystem = fs
\* C34: in the application, whenever a drop is answered with the toast "Item
\* moved", the snapshot the application then holds has the dragged node
\* under the directory it was dropped on.
C34_MovedItemIsUnderTarget ==
    \A node \in DOMAIN fs.nodes, sourceNodeId \in DOMAIN fs.nodes :
        LET dropped == handleDrop(fs, node, sourceNodeId, ExplorerOnFileSystemChange)
        IN dropped.toast = "Item moved"
              => /\ dropped.fileSystem.nodes[sourceNodeId].parentId = node
                 /\ sourceNodeId \in Elements(dropped.fileSystem.nodes[node].children)

\* A node is dropped on a directory that is not its parent, moveNode accepts
\* the move and the toast says "Item moved", and the snapshot the application
\* holds is the one from before the drop, with the node under its old parent.
C34_Witness ==
    \E node \in DOMAIN fs.nodes, sourceNodeId \in DOMAIN fs.nodes :
        LET dropped == handleDrop(fs, node, sourceNodeId, ExplorerOnFileSystemChange)
        IN /\ moveNode(fs, sourceNodeId, node).ok
           /\ moveNode(fs, sourceNodeId, node).fs.nodes[sourceNodeId].parentId = node
           /\ dropped.toast = "Item moved"
           /\ dropped.fileSystem = fs
           /\ fs.nodes[sourceNodeId].parentId # node
====
